---- MODULE Spec2Model ----
(***************************************************************************)
(* Storyboard annotation pipeline (backend/app/services).                  *)
(*                                                                         *)
(* StoryAnalyzer.analyze_and_enhance runs, in this order, the structural   *)
(* analyzer, the character analyzer, emotional scoring, effect selection,  *)
(* the quality controller and the sparsity controller, and substitutes a   *)
(* fallback markup when a step raises.                                     *)
(*                                                                         *)
(* Representation.                                                         *)
(*  - A text is [null, words]: null stands for text = None; words is the   *)
(*    result of text.split().  A word is [tag, kw, name]: kw is the set of *)
(*    table keywords and quote characters (", ') that occur in the word as *)
(*    substrings, tag is the rest                                          *)
(*    of the word (it makes two words different strings), name is the      *)
(*    character name the word is harvested as ("" when it is none).        *)
(*    So `keyword in text.lower()` is HasKw(text, keyword).                *)
(*  - A float in [0,1] is an integer number of 1/10000ths.                 *)
(*  - A Python dict is a record; an absent / None / empty-string key is "".*)
(*    A chapter carries shape: "dict" for a chapter record, "list" for a   *)
(*    bare list of items.                                                  *)
(***************************************************************************)
EXTENDS Integers, Sequences, FiniteSets, TLC

\* ------------------------------------------------------------------ bounds
MaxChapters == 2
MaxSegs == 2
LongLen == 14
MaxEffectSegs == 3

\* ------------------------------------------------------- generic helpers
Min(a, b) == IF a < b THEN a ELSE b
Max(a, b) == IF a > b THEN a ELSE b

RECURSIVE SumSeq(_)
SumSeq(s) == IF s = <<>> THEN 0 ELSE Head(s) + SumSeq(Tail(s))

RECURSIVE Concat(_)
Concat(ss) == IF ss = <<>> THEN <<>> ELSE Head(ss) \o Concat(Tail(ss))

\* greatest element of a non-empty set of integers
MaxOf(S) == CHOOSE x \in S : \A y \in S : y <= x

\* a quotient num / den of two integers, kept exact
Quotient(num, den) == [num |-> num, den |-> den]

\* number of keywords of a table that occur in the text:
\* sum(1 for w in table if w in text_lower)
HasKw(text, k) == \E i \in 1..Len(text.words) : k \in text.words[i].kw
Hits(text, table) == Cardinality({k \in table : HasKw(text, k)})
WordCount(text) == Len(text.words)

\* ------------------------------------------------ emotion_scorer.py tables
high_intensity == {"rage", "fury", "terror", "ecstasy", "despair", "passion", "hatred",
                   "love", "joy", "grief", "panic", "wonder", "shock", "amazement"}
medium_intensity == {"angry", "sad", "happy", "afraid", "excited", "worried", "surprised",
                     "confused", "annoyed", "pleased", "disappointed", "relieved"}
intensity_indicators == {"shouted", "whispered", "cried", "laughed", "screamed", "muttered"}
action_verbs == {"ran", "jumped", "fought", "moved", "entered", "left", "grabbed", "pushed",
                 "pulled", "threw", "caught", "escaped", "chased", "attacked", "defended"}
urgency_words == {"suddenly", "quickly", "rapidly", "immediately", "instantly", "urgently"}
pacing_words == {"finally", "at last", "moment", "turning point", "climax"}
sensory_visual == {"saw", "looked", "watched", "observed", "noticed", "appeared", "seemed"}
sensory_auditory == {"heard", "listened", "sounded", "echoed", "whispered", "shouted"}
sensory_tactile == {"felt", "touched", "grasped", "held", "pressed", "squeezed"}
sensory_olfactory == {"smelled", "scented", "aroma", "fragrance", "odor", "stench"}
sensory_gustatory == {"tasted", "flavor", "sweet", "bitter", "sour", "spicy"}
richness_words == {"vivid", "bright", "loud", "soft", "sharp", "smooth", "rough"}
conflict_words == {"fight", "battle", "conflict", "argument", "dispute", "disagreement",
                   "struggle", "war", "attack", "defend", "resist", "oppose", "challenge"}
emotional_conflict == {"hate", "anger", "rage", "fury", "resentment", "jealousy", "envy",
                       "betrayal", "deception", "lies", "secrets", "mistrust"}
physical_conflict == {"punch", "kick", "hit", "strike", "wound", "injury", "blood", "pain"}
vulnerability_words == {"confessed", "admitted", "revealed", "told", "shared", "opened up",
                        "trusted", "believed", "hoped", "feared", "worried", "doubted"}
vulnerable_emotions == {"fear", "sadness", "love", "trust"}

\* emotions of _identify_primary_emotion, in declaration order
ScorerEmotionOrder == <<"joy", "sadness", "anger", "fear", "love", "surprise", "disgust", "trust">>
ScorerEmotionKeywords ==
  [joy |-> {"happy", "joy", "delighted", "excited", "cheerful", "laugh", "smile"},
   sadness |-> {"sad", "depressed", "melancholy", "grief", "sorrow", "tears"},
   anger |-> {"angry", "furious", "rage", "hate", "hostile", "aggressive"},
   fear |-> {"afraid", "fear", "terrified", "scared", "anxious", "worried"},
   love |-> {"love", "adore", "passion", "affection", "tender", "romantic"},
   surprise |-> {"surprised", "shocked", "amazed", "astonished", "stunned"},
   disgust |-> {"disgusted", "revolted", "sickened", "repulsed"},
   trust |-> {"trust", "faith", "confidence", "belief", "reliable"}]

\* 1.0 in the integer scale of scores and intensities
One == 10000

\* first key with the maximal value, as max(d, key=d.get) over a dict in
\* insertion order
RECURSIVE ArgMaxFirst(_, _, _)
ArgMaxFirst(order, val, best) ==
  IF order = <<>> THEN best
  ELSE ArgMaxFirst(Tail(order), val,
                   IF val[Head(order)] > val[best] THEN Head(order) ELSE best)

\* -------------------------------------------------- structural_analyzer.py
beat_turning_keywords == {"suddenly", "finally", "at last", "turning point"}
beat_development_keywords == {"decision", "choice", "realized", "understood"}
tension_keywords == {"fight", "battle", "conflict", "danger", "threat", "attack", "escape"}

AnyTextNull(book) ==
  \E c \in 1..Len(book.chapters) :
    \E i \in 1..Len(book.chapters[c].content) : book.chapters[c].content[i].text.null

\* _find_beat_indicators: the segment at 1-based position i is a story beat
IsStoryBeat(text) ==
  \/ Hits(text, beat_turning_keywords) > 0
  \/ Hits(text, beat_development_keywords) > 0

\* _calculate_tension_score(text) > 0.6
IsTensionPoint(text) ==
  WordCount(text) > 0 /\ 10 * Hits(text, tension_keywords) > 6 * WordCount(text)

\* the (chapter, position) pairs, 0-based as in the code, of the segments
\* that are story beats, and of those that are tension points
IdentifyStoryBeats(chapters) ==
  UNION {{<<c - 1, i - 1>> : i \in {j \in 1..Len(chapters[c].content) :
                                       IsStoryBeat(chapters[c].content[j].text)}} :
         c \in 1..Len(chapters)}

FindTensionPoints(chapters) ==
  UNION {{<<c - 1, i - 1>> : i \in {j \in 1..Len(chapters[c].content) :
                                       IsTensionPoint(chapters[c].content[j].text)}} :
         c \in 1..Len(chapters)}

\* _determine_chapter_role(chapter_index, total_chapters, content), 0-based index
DetermineChapterRole(idx, total) ==
  IF idx = 0 THEN "exposition"
  ELSE IF idx < total \div 4 THEN "setup"
  ELSE IF idx < total \div 2 THEN "rising_action"
  ELSE IF idx < (3 * total) \div 4 THEN "climax"
  ELSE "resolution"

\* _contains_dialogue: '"' in text, tested three times over
ContainsDialogue(text) == HasKw(text, "\"")

\* _calculate_dialogue_density: dialogue_count / total_segments, 0.0 for an
\* empty chapter
CalculateDialogueDensity(content) ==
  IF content = <<>> THEN Quotient(0, 1)
  ELSE Quotient(Cardinality({i \in 1..Len(content) : ContainsDialogue(content[i].text)}),
                Len(content))

\* _identify_story_phases: list(range(a, b)) for each phase, as the set of
\* the chapter indices (0-based) in it
IdentifyStoryPhases(total_chapters) ==
  [exposition |-> 0..(Max(1, total_chapters \div 4) - 1),
   rising_action |-> Max(1, total_chapters \div 4)..((total_chapters \div 2) - 1),
   climax |-> (total_chapters \div 2)..(((3 * total_chapters) \div 4) - 1),
   falling_action |-> ((3 * total_chapters) \div 4)..(total_chapters - 1)]

\* 'story_phases': {} of the fallback structure: no phase holds a chapter
NoPhases == [exposition |-> {}, rising_action |-> {}, climax |-> {}, falling_action |-> {}]

CreateFallbackStructureAnalysis ==
  [story_beats |-> {}, tension_points |-> {}, chapter_analysis |-> <<>>,
   story_phases |-> NoPhases]

\* the analysis raises on a None text (text.lower()) and, in
\* _assess_structural_balance, on a book that has chapters and no segment
\* (length_variance / avg_length ** 2 with avg_length = 0)
StructureRaises(book) ==
  \/ AnyTextNull(book)
  \/ /\ book.chapters # <<>>
     /\ \A c \in 1..Len(book.chapters) : book.chapters[c].content = <<>>

\* analyze_narrative_structure: an exception inside the analysis (or a
\* failure forced inside a helper) yields the fallback structure
AnalyzeNarrativeStructure(book, forced) ==
  IF forced \/ StructureRaises(book) THEN CreateFallbackStructureAnalysis
  ELSE [story_beats |-> IdentifyStoryBeats(book.chapters),
        tension_points |-> FindTensionPoints(book.chapters),
        story_phases |-> IdentifyStoryPhases(Len(book.chapters)),
        chapter_analysis |-> [c \in 1..Len(book.chapters) |->
           [structural_role |-> DetermineChapterRole(c - 1, Len(book.chapters)),
            dialogue_density |-> CalculateDialogueDensity(book.chapters[c].content)]]]

\* --------------------------------------------------- character_analyzer.py
CharEmotionOrder == <<"anger", "sadness", "joy", "fear", "love", "surprise", "disgust", "trust">>
CharEmotionKeywords ==
  [anger |-> {"angry", "furious", "rage", "hate", "hostile", "aggressive", "fierce"},
   sadness |-> {"sad", "depressed", "melancholy", "grief", "sorrow", "tears", "wept"},
   joy |-> {"happy", "joy", "delighted", "excited", "cheerful", "laugh", "smile"},
   fear |-> {"afraid", "fear", "terrified", "scared", "anxious", "worried", "panic"},
   love |-> {"love", "adore", "passion", "affection", "tender", "romantic", "heart"},
   surprise |-> {"surprised", "shocked", "amazed", "astonished", "stunned", "wonder"},
   disgust |-> {"disgusted", "revolted", "sickened", "repulsed", "nauseated"},
   trust |-> {"trust", "faith", "confidence", "belief", "reliable", "loyal"}]

\* all segment texts of the book, flattened
AllTexts(chapters) ==
  Concat([c \in 1..Len(chapters) |->
            [i \in 1..Len(chapters[c].content) |-> chapters[c].content[i].text]])

\* _is_character_mentioned: character.lower() in text.lower()
Mentions(text, character) ==
  \E i \in 1..Len(text.words) : text.words[i].name = character

\* _extract_character_names + _filter_character_names: a capitalised word
\* that is not the first word of the text (words of the model never end in
\* '.', '!' or '?', and no text holds a quotation or a "said" pattern)
ExtractCharacterNames(text) ==
  {text.words[i].name : i \in {j \in 2..Len(text.words) : text.words[j].name # ""}}

IdentifyCharacters(texts) ==
  UNION {ExtractCharacterNames(texts[i]) : i \in 1..Len(texts)}

\* _analyze_emotional_signature: keyword hits over the joined texts that
\* mention the character; sorted() is stable, so ties go to declaration order
PrimaryEmotionOfCharacter(texts, character) ==
  LET mine == {i \in 1..Len(texts) : Mentions(texts[i], character)}
      score == [e \in DOMAIN CharEmotionKeywords |->
                  Cardinality({k \in CharEmotionKeywords[e] :
                                 \E i \in mine : HasKw(texts[i], k)})]
      best == ArgMaxFirst(CharEmotionOrder, score, CharEmotionOrder[1])
  IN  IF mine # {} /\ score[best] > 0 THEN best ELSE "neutral"

\* _create_fallback_character_profiles
CreateFallbackCharacterProfiles == {[name |-> "narrator", primary_emotion |-> "neutral"]}

\* analyze_character_arcs whose except branch returns an empty profile map
AnalyzeCharacterArcs_EmptyOnFailure(book, forced) ==
  IF forced \/ AnyTextNull(book) THEN {}
  ELSE LET texts == AllTexts(book.chapters)
       IN  {[name |-> c, primary_emotion |-> PrimaryEmotionOfCharacter(texts, c)] :
              c \in IdentifyCharacters(texts)}

\* analyze_character_arcs: the profiles, keyed by name; each profile is
\* reduced to the emotional_signature.primary_emotion the pipeline reads
AnalyzeCharacterArcs(book, forced) ==
  IF forced \/ AnyTextNull(book) THEN CreateFallbackCharacterProfiles
  ELSE LET texts == AllTexts(book.chapters)
       IN  {[name |-> c, primary_emotion |-> PrimaryEmotionOfCharacter(texts, c)] :
              c \in IdentifyCharacters(texts)}

\* ------------------------------------------------------ emotion_scorer.py
\* '"' in text
HasDialogue(text) == HasKw(text, "\"")

\* _analyze_dialogue_emotion
AnalyzeDialogueEmotion(text) ==
  IF WordCount(text) = 0 THEN 0
  ELSE IF ~HasDialogue(text) THEN 1000
  ELSE (3000 * Hits(text, high_intensity) + 2000 * Hits(text, medium_intensity)
        + 1500 * Hits(text, intensity_indicators)) \div WordCount(text)

\* _measure_action_pacing
MeasureActionPacing(text) ==
  IF WordCount(text) = 0 THEN 0
  ELSE (One * (Hits(text, action_verbs) + Hits(text, urgency_words) + Hits(text, pacing_words)))
       \div WordCount(text)

\* _assess_sensory_language
AssessSensoryLanguage(text) ==
  IF WordCount(text) = 0 THEN 0
  ELSE (One * (Hits(text, sensory_visual) + Hits(text, sensory_auditory)
               + Hits(text, sensory_tactile) + Hits(text, sensory_olfactory)
               + Hits(text, sensory_gustatory) + Hits(text, richness_words)))
       \div WordCount(text)

\* _evaluate_conflict_intensity
EvaluateConflictIntensity(text) ==
  IF WordCount(text) = 0 THEN 0
  ELSE (4000 * Hits(text, conflict_words) + 4000 * Hits(text, emotional_conflict)
        + 2000 * Hits(text, physical_conflict)) \div WordCount(text)

\* _assess_character_openness
AssessCharacterOpenness(text, character_profiles) ==
  IF WordCount(text) = 0 \/ character_profiles = {} THEN 0
  ELSE Min(One, (One * Hits(text, vulnerability_words)) \div WordCount(text)
                + 3000 * Cardinality({p \in character_profiles :
                                        /\ Mentions(text, p.name)
                                        /\ p.primary_emotion \in vulnerable_emotions}))

\* _calculate_narrative_context_weight, in hundredths; chapter and position
\* are content_item.get('chapter', -1) and content_item.get('position', -1)
CalculateNarrativeContextWeight(chapter, position, structure_data) ==
  (IF <<chapter, position>> \in structure_data.story_beats THEN 150 ELSE 100)
  * (IF <<chapter, position>> \in structure_data.tension_points THEN 130 ELSE 100)

\* calculate_emotional_weight without min(1.0, max(0.0, emotional_score))
CalculateEmotionalWeight_NoClamp(item, structure_data, character_profiles) ==
  IF item.text.null \/ WordCount(item.text) = 0 THEN 0
  ELSE LET w == CalculateNarrativeContextWeight(item.chapter, item.position, structure_data)
           sum == 30 * AnalyzeDialogueEmotion(item.text)
                  + 25 * MeasureActionPacing(item.text)
                  + 20 * AssessSensoryLanguage(item.text)
                  + 15 * EvaluateConflictIntensity(item.text)
                  + 10 * AssessCharacterOpenness(item.text, character_profiles)
       IN  ((sum \div 100) * w) \div One

\* calculate_emotional_weight: 0.0 for a blank text and on any exception
\* (a None text), else the clamped weighted sum
CalculateEmotionalWeight(item, structure_data, character_profiles) ==
  IF item.text.null \/ WordCount(item.text) = 0 THEN 0
  ELSE LET w == CalculateNarrativeContextWeight(item.chapter, item.position, structure_data)
           sum == 30 * AnalyzeDialogueEmotion(item.text)
                  + 25 * MeasureActionPacing(item.text)
                  + 20 * AssessSensoryLanguage(item.text)
                  + 15 * EvaluateConflictIntensity(item.text)
                  + 10 * AssessCharacterOpenness(item.text, character_profiles)
           \* sum is in 1/1000000ths and w in 1/10000ths; w >= 1.0, so a
           \* sum of 1.0 or more is clamped whatever w is
           base == sum \div 100
       IN  IF base >= One THEN One ELSE Min(One, Max(0, (base * w) \div One))

\* _identify_primary_emotion
IdentifyPrimaryEmotion(text) ==
  IF text.null \/ WordCount(text) = 0 THEN "neutral"
  ELSE LET score == [e \in DOMAIN ScorerEmotionKeywords |-> Hits(text, ScorerEmotionKeywords[e])]
           best == ArgMaxFirst(ScorerEmotionOrder, score, ScorerEmotionOrder[1])
       IN  IF score[best] > 0 THEN best ELSE "neutral"

\* get_emotional_context, reduced to the primary_emotion the selector reads
GetEmotionalContext(item) == IdentifyPrimaryEmotion(item.text)

\* ----------------------------------------------------- effect_selector.py
\* effect_library: triggers and contexts in declaration order, thresholds
\* and volumes in 1/10000ths, themes = config.get('themes', ['general'])
effect_library ==
  [fiery_sharp |-> [kind |-> "text_style", triggers |-> <<"anger", "rage", "fury", "aggressive">>,
                    intensity_threshold |-> 6000, contexts |-> <<"conflict", "battle", "confrontation">>,
                    themes |-> {"general"}, volume |-> 0],
   calm_gentle |-> [kind |-> "text_style", triggers |-> <<"peace", "calm", "gentle", "tender">>,
                    intensity_threshold |-> 4000, contexts |-> <<"reflection", "healing", "reconciliation">>,
                    themes |-> {"general"}, volume |-> 0],
   mysterious_shadow |-> [kind |-> "text_style", triggers |-> <<"mystery", "secret", "hidden", "unknown">>,
                    intensity_threshold |-> 5000, contexts |-> <<"revelation", "discovery", "magic">>,
                    themes |-> {"general"}, volume |-> 0],
   passionate_flame |-> [kind |-> "text_style", triggers |-> <<"love", "passion", "desire", "romance">>,
                    intensity_threshold |-> 7000, contexts |-> <<"romance", "confession", "intimate">>,
                    themes |-> {"general"}, volume |-> 0],
   fantasy_glow |-> [kind |-> "text_style", triggers |-> <<"magic", "enchanted", "dragon", "mystic">>,
                    intensity_threshold |-> 5000, contexts |-> <<"magic", "fantasy", "enchanted">>,
                    themes |-> {"fantasy"}, volume |-> 0],
   noir_shadow |-> [kind |-> "text_style", triggers |-> <<"shadow", "smoke", "dark", "mystery">>,
                    intensity_threshold |-> 5000, contexts |-> <<"crime", "investigation", "night">>,
                    themes |-> {"noir"}, volume |-> 0],
   burn |-> [kind |-> "word_effect", triggers |-> <<"hate", "rage", "fire", "burn">>,
                    intensity_threshold |-> 8000, contexts |-> <<"climax", "conflict", "transformation">>,
                    themes |-> {"general"}, volume |-> 0],
   glow |-> [kind |-> "word_effect", triggers |-> <<"light", "hope", "magic", "divine">>,
                    intensity_threshold |-> 6000, contexts |-> <<"revelation", "magic", "divine">>,
                    themes |-> {"general"}, volume |-> 0],
   sparkle |-> [kind |-> "word_effect", triggers |-> <<"joy", "wonder", "magic", "beautiful">>,
                    intensity_threshold |-> 5000, contexts |-> <<"joy", "wonder", "celebration">>,
                    themes |-> {"general"}, volume |-> 0],
   swords_clash |-> [kind |-> "sound", triggers |-> <<"fight", "battle", "sword", "clash">>,
                    intensity_threshold |-> 8000, contexts |-> <<"battle", "duel", "conflict">>,
                    themes |-> {"general"}, volume |-> 3000],
   gentle_wind |-> [kind |-> "sound", triggers |-> <<"wind", "breeze", "peace", "calm">>,
                    intensity_threshold |-> 4000, contexts |-> <<"peace", "nature", "reflection">>,
                    themes |-> {"general"}, volume |-> 2000],
   heartbeat |-> [kind |-> "sound", triggers |-> <<"heart", "fear", "tension", "anticipation">>,
                    intensity_threshold |-> 6000, contexts |-> <<"tension", "fear", "anticipation">>,
                    themes |-> {"general"}, volume |-> 2500]]

effect_tiers ==
  [TIER_1_MICRO |-> <<"calm_gentle", "gentle_wind">>,
   TIER_2_MODERATE |-> <<"fiery_sharp", "mysterious_shadow", "glow", "sparkle", "fantasy_glow", "noir_shadow">>,
   TIER_3_DRAMATIC |-> <<"passionate_flame", "burn", "swords_clash", "heartbeat">>]

Range(s) == {s[i] : i \in 1..Len(s)}

\* s[:n]
Take(s, n) == SubSeq(s, 1, Min(n, Len(s)))
\* s[-n:]
LastN(s, n) == SubSeq(s, Max(1, Len(s) - n + 1), Len(s))

\* _should_apply_effects; draw is the outcome random.random() <= 0.3.
\* Every history entry is a non-empty dict, hence truthy.
ShouldApplyEffects(emotional_score, effect_history, draw) ==
  /\ ~(emotional_score < 5000)
  /\ ~(Len(LastN(effect_history, 10)) > 2)
  /\ draw

\* _determine_effect_tier with the thresholds included in the higher tier
DetermineEffectTier_Inclusive(emotional_score) ==
  IF emotional_score >= 8000 THEN "TIER_3_DRAMATIC"
  ELSE IF emotional_score >= 6000 THEN "TIER_2_MODERATE"
  ELSE "TIER_1_MICRO"

\* _determine_effect_tier
DetermineEffectTier(emotional_score) ==
  IF emotional_score > 8000 THEN "TIER_3_DRAMATIC"
  ELSE IF emotional_score > 6000 THEN "TIER_2_MODERATE"
  ELSE "TIER_1_MICRO"

\* _filter_effects_by_theme without the test on the themes of the entry
FilterEffectsByTheme_AnyTheme(effect_names, effect_type, book_theme) ==
  LET Keep(name) == effect_library[name].kind = effect_type
  IN  SelectSeq(effect_names, Keep)

\* _filter_effects_by_theme
FilterEffectsByTheme(effect_names, effect_type, book_theme) ==
  LET Keep(name) == /\ effect_library[name].kind = effect_type
                    /\ \/ book_theme \in effect_library[name].themes
                       \/ "general" \in effect_library[name].themes
  IN  SelectSeq(effect_names, Keep)

\* _effect_matches_context
EffectMatchesContext(config, primary_emotion, text) ==
  \/ \E t \in Range(config.triggers) : HasKw(text, t)
  \/ primary_emotion \in Range(config.triggers)
  \/ primary_emotion = "neutral"
  \/ \E c \in Range(config.contexts) : HasKw(text, c)

\* _calculate_effect_relevance, in tenths (0.3 per trigger, 0.2 per context)
CalculateEffectRelevance(config, text) ==
  3 * Hits(text, Range(config.triggers)) + 2 * Hits(text, Range(config.contexts))

\* _calculate_effect_intensity
CalculateEffectIntensity(config, text) ==
  Min(One, config.intensity_threshold + Min(3000, 1000 * Hits(text, Range(config.triggers))))

\* _identify_character_for_effect: the first profile whose name occurs in
\* the text, None ("") when there is none
IdentifyCharacterForEffect(text, character_profiles) ==
  LET found == {p.name : p \in {q \in character_profiles : Mentions(text, q.name)}}
  IN  IF found = {} THEN "" ELSE CHOOSE n \in found : TRUE

Effect(type, style, effect, sound, word, intensity, character, volume) ==
  [type |-> type, style |-> style, effect |-> effect, sound |-> sound, word |-> word,
   intensity |-> intensity, character |-> character, volume |-> volume]

\* first element of names with the greatest relevance (stable sort, reverse)
RECURSIVE BestByRelevance(_, _, _)
BestByRelevance(names, text, best) ==
  IF names = <<>> THEN best
  ELSE BestByRelevance(Tail(names), text,
         IF CalculateEffectRelevance(effect_library[Head(names)], text)
              > CalculateEffectRelevance(effect_library[best], text)
         THEN Head(names) ELSE best)

\* _select_text_style_effect: a sequence of zero or one effect
SelectTextStyleEffect(primary_emotion, character_profiles, text, available_effects) ==
  LET Match(name) == EffectMatchesContext(effect_library[name], primary_emotion, text)
      matching == SelectSeq(available_effects, Match)
  IN  IF matching = <<>> THEN <<>>
      ELSE LET name == BestByRelevance(matching, text, Head(matching))
           IN  <<Effect("text_style", name, "", "", 0,
                        CalculateEffectIntensity(effect_library[name], text),
                        IdentifyCharacterForEffect(text, character_profiles), 0)>>

\* index of the first word of the text that contains the trigger
FirstWordWith(text, trigger) ==
  CHOOSE i \in 1..Len(text.words) :
    /\ trigger \in text.words[i].kw
    /\ \A j \in 1..(i - 1) : trigger \notin text.words[j].kw

\* _find_matching_words: per trigger that occurs, the first word holding it
FindMatchingWords(triggers, text) ==
  LET In(t) == HasKw(text, t)
      present == SelectSeq(triggers, In)
  IN  Take([k \in 1..Len(present) |-> FirstWordWith(text, present[k])], 3)

\* _select_word_effects
SelectWordEffects(primary_emotion, text, available_effects) ==
  LET Match(name) == EffectMatchesContext(effect_library[name], primary_emotion, text)
      matching == SelectSeq(available_effects, Match)
      ForName(name) ==
        LET words == FindMatchingWords(effect_library[name].triggers, text)
        IN  [k \in 1..Len(words) |->
               Effect("word_effect", "", name, "", words[k],
                      CalculateEffectIntensity(effect_library[name], text), "", 0)]
  IN  Take(Concat([k \in 1..Len(matching) |-> ForName(matching[k])]), 2)

\* _select_sound_effect; the catalog name is suffixed with ".mp3"
SoundFile(name) ==
  CASE name = "swords_clash" -> "swords_clash.mp3"
    [] name = "gentle_wind" -> "gentle_wind.mp3"
    [] name = "heartbeat" -> "heartbeat.mp3"

SelectSoundEffect(primary_emotion, text, available_effects) ==
  LET Match(name) == EffectMatchesContext(effect_library[name], primary_emotion, text)
      matching == SelectSeq(available_effects, Match)
  IN  IF matching = <<>> THEN <<>>
      ELSE <<Effect("sound", "", "", SoundFile(Head(matching)), 0,
                    CalculateEffectIntensity(effect_library[Head(matching)], text), "",
                    effect_library[Head(matching)].volume)>>

\* select_appropriate_effects without the limit of three effects per segment
SelectAppropriateEffects_NoLimit(item, character_profiles, effect_history, book_theme, draw) ==
  IF ~ShouldApplyEffects(item.emotional_score, effect_history, draw) THEN <<>>
  ELSE LET tier == effect_tiers[DetermineEffectTier(item.emotional_score)]
       IN  SelectTextStyleEffect(item.primary_emotion, character_profiles, item.text,
                                 FilterEffectsByTheme(tier, "text_style", book_theme))
           \o SelectWordEffects(item.primary_emotion, item.text,
                                FilterEffectsByTheme(tier, "word_effect", book_theme))
           \o (IF item.emotional_score > 8000
               THEN SelectSoundEffect(item.primary_emotion, item.text,
                                      FilterEffectsByTheme(tier, "sound", book_theme))
               ELSE <<>>)

\* select_appropriate_effects
SelectAppropriateEffects(item, character_profiles, effect_history, book_theme, draw) ==
  IF ~ShouldApplyEffects(item.emotional_score, effect_history, draw) THEN <<>>
  ELSE LET tier == effect_tiers[DetermineEffectTier(item.emotional_score)]
           selected ==
             SelectTextStyleEffect(item.primary_emotion, character_profiles, item.text,
                                   FilterEffectsByTheme(tier, "text_style", book_theme))
             \o SelectWordEffects(item.primary_emotion, item.text,
                                  FilterEffectsByTheme(tier, "word_effect", book_theme))
             \o (IF item.emotional_score > 8000
                 THEN SelectSoundEffect(item.primary_emotion, item.text,
                                        FilterEffectsByTheme(tier, "sound", book_theme))
                 ELSE <<>>)
       IN  IF Len(selected) > 3 THEN Take(selected, 3) ELSE selected

\* -------------------------------------------------- quality_controller.py
inappropriate_combinations ==
  {<<"fiery_sharp", "calm_gentle">>, <<"swords_clash", "gentle_wind">>,
   <<"burn", "glow">>, <<"passionate_flame", "mysterious_shadow">>}

context_violation_order == <<"romance", "peace", "reflection", "dialogue">>
context_violations ==
  [romance |-> {"swords_clash", "burn", "fiery_sharp"},
   peace |-> {"swords_clash", "burn", "heartbeat"},
   reflection |-> {"swords_clash", "burn", "passionate_flame"},
   dialogue |-> {"swords_clash"}]

valid_types == {"text_style", "word_effect", "sound"}

\* effect.get('style') or effect.get('effect') or effect.get('sound', '')
EffectName(e) ==
  IF e.style # "" THEN e.style ELSE IF e.effect # "" THEN e.effect ELSE e.sound

\* _is_context_appropriate: the combination check reads the effects list of
\* the content item it is given
IsContextAppropriate(effect, item) ==
  /\ ~\E c \in DOMAIN context_violations :
        HasKw(item.text, c) /\ EffectName(effect) \in context_violations[c]
  /\ ~\E k \in 1..Len(item.effects) :
        /\ item.effects[k] # effect
        /\ <<EffectName(effect), EffectName(item.effects[k])>> \in inappropriate_combinations

\* character_relevance.get(character, 0.0)
RelevanceOf(item, character) ==
  IF character \in DOMAIN item.character_relevance
  THEN item.character_relevance[character] ELSE 0

\* _is_character_consistent
IsCharacterConsistent(effect, item) ==
  effect.character = "" \/ RelevanceOf(item, effect.character) >= 7000

\* _is_effect_valid
IsEffectValid(effect, item) ==
  /\ ~(item.emotional_score < 5000)
  /\ effect.type \in valid_types
  /\ IsContextAppropriate(effect, item)
  /\ IsCharacterConsistent(effect, item)

\* _calculate_effect_quality_score, in 1/100000ths
CalculateEffectQualityScore(effect, item) ==
  Min(10 * One,
      4 * item.emotional_score + 3 * effect.intensity
      + (IF effect.character # "" THEN 2 * RelevanceOf(item, effect.character) ELSE 0)
      + (IF IsContextAppropriate(effect, item) THEN One ELSE 0))

\* list.sort(key, reverse=True) and list.sort(key): stable sorts, here over
\* <<key, element>> pairs; keys[i] is the key of s[i]
RECURSIVE InsertDesc(_, _)
InsertDesc(sorted, x) ==
  IF sorted = <<>> THEN <<x>>
  ELSE IF Head(sorted)[1] >= x[1] THEN <<Head(sorted)>> \o InsertDesc(Tail(sorted), x)
  ELSE <<x>> \o sorted

RECURSIVE SortPairsDesc(_)
SortPairsDesc(s) ==
  IF s = <<>> THEN <<>>
  ELSE InsertDesc(SortPairsDesc(SubSeq(s, 1, Len(s) - 1)), s[Len(s)])

SortDesc(s, keys) ==
  LET sorted == SortPairsDesc([i \in 1..Len(s) |-> <<keys[i], s[i]>>])
  IN  [i \in 1..Len(s) |-> sorted[i][2]]

RECURSIVE InsertAsc(_, _)
InsertAsc(sorted, x) ==
  IF sorted = <<>> THEN <<x>>
  ELSE IF Head(sorted)[1] <= x[1] THEN <<Head(sorted)>> \o InsertAsc(Tail(sorted), x)
  ELSE <<x>> \o sorted

RECURSIVE SortPairsAsc(_)
SortPairsAsc(s) ==
  IF s = <<>> THEN <<>>
  ELSE InsertAsc(SortPairsAsc(SubSeq(s, 1, Len(s) - 1)), s[Len(s)])

SortAsc(s, keys) ==
  LET sorted == SortPairsAsc([i \in 1..Len(s) |-> <<keys[i], s[i]>>])
  IN  [i \in 1..Len(s) |-> sorted[i][2]]

\* the effect types of the list in order of first occurrence (dict keys)
RECURSIVE TypesInOrder(_, _)
TypesInOrder(effects, seen) ==
  IF effects = <<>> THEN <<>>
  ELSE IF Head(effects).type \in seen THEN TypesInOrder(Tail(effects), seen)
  ELSE <<Head(effects).type>> \o TypesInOrder(Tail(effects), seen \cup {Head(effects).type})

\* max(type_effects, key=intensity): the first effect of greatest intensity
RECURSIVE MaxIntensityFirst(_, _)
MaxIntensityFirst(effects, best) ==
  IF effects = <<>> THEN best
  ELSE MaxIntensityFirst(Tail(effects),
                         IF Head(effects).intensity > best.intensity THEN Head(effects) ELSE best)

\* _remove_redundant_effects emitting the kept effects last type first
RemoveRedundantEffects_Reversed(effects) ==
  IF Len(effects) <= 1 THEN effects
  ELSE LET types == TypesInOrder(effects, {})
           Group(t) == LET Of(e) == e.type = t IN SelectSeq(effects, Of)
       IN  [k \in 1..Len(types) |->
              MaxIntensityFirst(Group(types[Len(types) + 1 - k]),
                                Head(Group(types[Len(types) + 1 - k])))]

\* _remove_redundant_effects
RemoveRedundantEffects(effects) ==
  IF Len(effects) <= 1 THEN effects
  ELSE LET types == TypesInOrder(effects, {})
           Group(t) == LET Of(e) == e.type = t IN SelectSeq(effects, Of)
       IN  [k \in 1..Len(types) |->
              MaxIntensityFirst(Group(types[k]), Head(Group(types[k])))]

\* _apply_quality_filters
ApplyQualityFilters(effects, item) ==
  IF effects = <<>> THEN <<>>
  ELSE LET scores == [k \in 1..Len(effects) |-> CalculateEffectQualityScore(effects[k], item)]
           kept == IF Len(effects) > 3 THEN Take(SortDesc(effects, scores), 3) ELSE effects
       IN  RemoveRedundantEffects(kept)

\* _validate_content_effects
ValidateContentEffects(item) ==
  IF item.effects = <<>> THEN <<>>
  ELSE LET Valid(e) == IsEffectValid(e, item)
       IN  ApplyQualityFilters(SelectSeq(item.effects, Valid), item)

\* a content entry that is None where an item dict is expected
NoneItem ==
  [type |-> "None", text |-> [null |-> TRUE, words |-> <<>>], chapter |-> -1, position |-> -1,
   scored |-> FALSE, emotional_score |-> 0, primary_emotion |-> "",
   character_relevance |-> <<>>, effects |-> <<>>]

\* item.get(...) succeeds
IsDictItem(item) == item.type # "None"

\* the cases in which validate_all_effects raises internally: a chapter
\* that is a bare list (chapter.get), a content entry that is not a dict
\* (content_item.get), or a None text reached by _is_context_appropriate
\* (text.lower())
QualityRaises(markup) ==
  \E c \in 1..Len(markup.chapters) :
    \/ markup.chapters[c].shape # "dict"
    \/ \E i \in 1..Len(markup.chapters[c].content) : ~IsDictItem(markup.chapters[c].content[i])
    \/ \E i \in 1..Len(markup.chapters[c].content) :
         LET item == markup.chapters[c].content[i]
         IN  /\ item.text.null
             /\ ~(item.emotional_score < 5000)
             /\ \E k \in 1..Len(item.effects) : item.effects[k].type \in valid_types

\* _generate_quality_report(original_markup, validated_markup) starts with
\* validated_markup.get('chapters', []): AttributeError unless the argument
\* is a dict
GenerateQualityReportRaises(validated_markup) == validated_markup.shape # "dict"

\* validate_all_effects whose except branch returns the chapters it has
\* validated so far in the place of the input's chapters
ValidateAllEffects_KeepsValidated(markup) ==
  IF QualityRaises(markup) THEN markup
  ELSE [markup EXCEPT
          !.chapters =
             [c \in 1..Len(markup.chapters) |->
                [markup.chapters[c] EXCEPT
                   !.content = [i \in 1..Len(markup.chapters[c].content) |->
                      [markup.chapters[c].content[i] EXCEPT
                         !.effects = ValidateContentEffects(markup.chapters[c].content[i])]]]]]

\* validate_all_effects.  The quality report is requested with the list
\* validated_chapters in the place of the validated markup, so the call
\* raises after the chapters were validated; the except branch returns
\* enhanced_markup, the markup that was passed in.
ValidateAllEffects(markup) ==
  IF QualityRaises(markup) THEN markup
  ELSE LET validated_chapters ==
             [c \in 1..Len(markup.chapters) |->
                [markup.chapters[c] EXCEPT
                   !.content = [i \in 1..Len(markup.chapters[c].content) |->
                      [markup.chapters[c].content[i] EXCEPT
                         !.effects = ValidateContentEffects(markup.chapters[c].content[i])]]]]
           report_argument == [shape |-> "list", chapters |-> validated_chapters]
       IN  IF GenerateQualityReportRaises(report_argument) THEN markup
           ELSE [markup EXCEPT
                   !.chapters = validated_chapters,
                   !.quality_metadata =
                      [present |-> TRUE,
                       total_effects_removed |->
                         SumSeq([c \in 1..Len(markup.chapters) |->
                           SumSeq([i \in 1..Len(markup.chapters[c].content) |->
                             Len(markup.chapters[c].content[i].effects)
                             - Len(validated_chapters[c].content[i].effects)])])]]

\* ------------------------------------------------- sparsity_controller.py
minimum_effect_spacing == 8
maximum_consecutive_effects == 2

\* chapter_type_multipliers.get(chapter_type, 1.0), in tenths
ChapterTypeMultiplier(chapter_type) ==
  CASE chapter_type = "exposition" -> 3
    [] chapter_type = "setup" -> 5
    [] chapter_type = "rising_action" -> 8
    [] chapter_type = "climax" -> 15
    [] chapter_type = "resolution" -> 7
    [] OTHER -> 10

\* _count_total_segments
CountTotalSegments(markup) ==
  SumSeq([c \in 1..Len(markup.chapters) |-> Len(markup.chapters[c].content)])

\* int(total_content_segments * global_effect_density), density = 0.02
GlobalTarget(markup) == (2 * CountTotalSegments(markup)) \div 100

\* _determine_chapter_type
DetermineChapterType(chapter) ==
  IF chapter.structural_role # "" THEN chapter.structural_role
  ELSE IF chapter.content = <<>> THEN "exposition"
  ELSE LET total == SumSeq([i \in 1..Len(chapter.content) |-> chapter.content[i].emotional_score])
           n == Len(chapter.content)
       IN  IF 10 * total > 7 * One * n THEN "climax"
           ELSE IF 10 * total > 5 * One * n THEN "rising_action"
           ELSE IF 10 * total > 3 * One * n THEN "setup"
           ELSE "exposition"

\* int(len(content) * chapter_effect_limit * multiplier), limit = 0.05
ChapterLimit(chapter) ==
  (Len(chapter.content) * 5 * ChapterTypeMultiplier(DetermineChapterType(chapter))) \div 1000

\* x.get('position', 0); an absent position is -1 in the model
PositionKey(item) == IF item.position = -1 THEN 0 ELSE item.position

Indices(s) == [i \in 1..Len(s) |-> i]

\* _apply_chapter_sparsity without the sort by emotional_score: the first
\* chapter_limit effect-bearing items in list order keep their effects
ApplyChapterSparsity_KeepsFirst(chapter, global_target) ==
  LET content == chapter.content
      chapter_limit == ChapterLimit(chapter)
      With(i) == content[i].effects # <<>>
      Without(i) == content[i].effects = <<>>
      items_with_effects == SelectSeq(Indices(content), With)
      items_without_effects == SelectSeq(Indices(content), Without)
      over == Len(items_with_effects) > chapter_limit
      excess == IF over THEN SubSeq(items_with_effects, chapter_limit + 1, Len(items_with_effects))
                ELSE <<>>
      order == IF over THEN Take(items_with_effects, chapter_limit) \o items_without_effects \o excess
               ELSE items_with_effects \o items_without_effects
      items == [k \in 1..Len(order) |->
                  IF order[k] \in Range(excess)
                  THEN [content[order[k]] EXCEPT !.effects = <<>>]
                  ELSE content[order[k]]]
  IN  [content |-> SortAsc(items, [k \in 1..Len(items) |-> PositionKey(items[k])]),
       cleared |-> Range(excess),
       removed |-> SumSeq([k \in 1..Len(excess) |-> Len(content[excess[k]].effects)])]

\* _apply_chapter_sparsity.  global_target is accepted and never read.
\* Returns the new content list, the indices of the chapter's items whose
\* effects were cleared in place, and the number of removed effects.
ApplyChapterSparsity(chapter, global_target) ==
  LET content == chapter.content
      chapter_limit == ChapterLimit(chapter)
      With(i) == content[i].effects # <<>>
      Without(i) == content[i].effects = <<>>
      items_with_effects == SelectSeq(Indices(content), With)
      items_without_effects == SelectSeq(Indices(content), Without)
      scores == [k \in 1..Len(items_with_effects) |->
                   content[items_with_effects[k]].emotional_score]
      over == Len(items_with_effects) > chapter_limit
      ranked == SortDesc(items_with_effects, scores)
      excess == IF over THEN SubSeq(ranked, chapter_limit + 1, Len(ranked)) ELSE <<>>
      order == IF over THEN Take(ranked, chapter_limit) \o items_without_effects \o excess
               ELSE items_with_effects \o items_without_effects
      items == [k \in 1..Len(order) |->
                  IF order[k] \in Range(excess)
                  THEN [content[order[k]] EXCEPT !.effects = <<>>]
                  ELSE content[order[k]]]
  IN  [content |-> SortAsc(items, [k \in 1..Len(items) |-> PositionKey(items[k])]),
       cleared |-> Range(excess),
       removed |-> SumSeq([k \in 1..Len(excess) |-> Len(content[excess[k]].effects)])]

\* the scan of _apply_spacing_rules without last_effect_position = i
RECURSIVE SpacingScan_NoLast(_, _, _, _)
SpacingScan_NoLast(content, i, last_effect_position, consecutive_effects) ==
  IF i > Len(content) THEN <<>>
  ELSE LET spacing_violation == ((i - 1) - last_effect_position) < minimum_effect_spacing
           consecutive_violation == consecutive_effects >= maximum_consecutive_effects
           item == IF content[i].effects # <<>> /\ (spacing_violation \/ consecutive_violation)
                   THEN [content[i] EXCEPT !.effects = <<>>]
                   ELSE content[i]
       IN  <<item>> \o
           (IF item.effects # <<>>
            THEN SpacingScan_NoLast(content, i + 1, last_effect_position,
                                    consecutive_effects + 1)
            ELSE SpacingScan_NoLast(content, i + 1, last_effect_position, 0))

\* _apply_spacing_rules: one scan in list order
RECURSIVE SpacingScan(_, _, _, _)
SpacingScan(content, i, last_effect_position, consecutive_effects) ==
  IF i > Len(content) THEN <<>>
  ELSE LET spacing_violation == ((i - 1) - last_effect_position) < minimum_effect_spacing
           consecutive_violation == consecutive_effects >= maximum_consecutive_effects
           item == IF content[i].effects # <<>> /\ (spacing_violation \/ consecutive_violation)
                   THEN [content[i] EXCEPT !.effects = <<>>]
                   ELSE content[i]
       IN  <<item>> \o
           (IF item.effects # <<>>
            THEN SpacingScan(content, i + 1, i - 1, consecutive_effects + 1)
            ELSE SpacingScan(content, i + 1, last_effect_position, 0))

ApplySpacingRules(content) ==
  IF content = <<>> THEN content
  ELSE SpacingScan(content, 1, -minimum_effect_spacing, 0)

\* _enforce_global_spacing: flatten, scan, cut again at the chapter boundaries
EnforceGlobalSpacing(chapters) ==
  LET all_content == Concat(chapters)
      chapter_boundaries == [c \in 1..Len(chapters) |->
                               SumSeq([d \in 1..(c - 1) |-> Len(chapters[d])])]
      controlled_content == ApplySpacingRules(all_content)
  IN  [c \in 1..Len(chapters) |->
         IF c = Len(chapters)
         THEN SubSeq(controlled_content, chapter_boundaries[c] + 1, Len(controlled_content))
         ELSE SubSeq(controlled_content, chapter_boundaries[c] + 1, chapter_boundaries[c + 1])]

\* a bare list of items standing where a chapter dict is expected
ListChapter(items) ==
  [shape |-> "list", title |-> "", chapterTitle |-> "", bookTitle |-> "",
   structural_role |-> "", content |-> items]

\* _count_total_segments calls chapter.get on every chapter before anything
\* is capped: AttributeError on a chapter that is a bare list
CountTotalSegmentsRaises(markup) ==
  \E c \in 1..Len(markup.chapters) : markup.chapters[c].shape # "dict"

\* _apply_chapter_sparsity raises on a chapter holding a content entry
\* that is not a dict (item.get in _determine_chapter_type or in the loop
\* over content), before it clears anything in that chapter
ChapterSparsityRaises(chapter) ==
  \E i \in 1..Len(chapter.content) : ~IsDictItem(chapter.content[i])

\* index of the first chapter on which _apply_chapter_sparsity raises, 0
\* when there is none
FirstBadChapter(markup) ==
  IF \A c \in 1..Len(markup.chapters) : ~ChapterSparsityRaises(markup.chapters[c]) THEN 0
  ELSE CHOOSE c \in 1..Len(markup.chapters) :
         /\ ChapterSparsityRaises(markup.chapters[c])
         /\ \A d \in 1..(c - 1) : ~ChapterSparsityRaises(markup.chapters[d])

\* the markup object that was passed in, as it is after the call: the items
\* cleared by _apply_chapter_sparsity (item['effects'] = []) are the caller's
\* dicts; upto is the number of chapters that were processed
MarkupAfterCapping(markup, upto) ==
  [markup EXCEPT
     !.chapters = [c \in 1..Len(markup.chapters) |->
        IF c > upto THEN markup.chapters[c]
        ELSE LET cleared ==
                   ApplyChapterSparsity(markup.chapters[c], GlobalTarget(markup)).cleared
             IN  [markup.chapters[c] EXCEPT
                    !.content = [i \in 1..Len(markup.chapters[c].content) |->
                       IF i \in cleared
                       THEN [markup.chapters[c].content[i] EXCEPT !.effects = <<>>]
                       ELSE markup.chapters[c].content[i]]]]]

\* enforce_sparsity_rules: returned is the returned markup, argument is the
\* state in which the call leaves the markup it was given.  On an exception
\* the except branch returns enhanced_markup, the object that was passed in,
\* with whatever _apply_chapter_sparsity has cleared in it so far.
EnforceSparsityRules(markup) ==
  LET bad == FirstBadChapter(markup)
  IN  IF CountTotalSegmentsRaises(markup)
      THEN [returned |-> markup, argument |-> markup]
      ELSE IF bad # 0
      THEN [returned |-> MarkupAfterCapping(markup, bad - 1),
            argument |-> MarkupAfterCapping(markup, bad - 1)]
      ELSE LET capped == [c \in 1..Len(markup.chapters) |->
                            ApplyChapterSparsity(markup.chapters[c], GlobalTarget(markup))]
               controlled_chapters ==
                 EnforceGlobalSpacing([c \in 1..Len(capped) |-> capped[c].content])
           IN  [returned |->
                  [markup EXCEPT
                     !.chapters = [c \in 1..Len(controlled_chapters) |->
                                     ListChapter(controlled_chapters[c])],
                     !.sparsity_metadata =
                        [present |-> TRUE,
                         total_effects_removed |->
                           SumSeq([c \in 1..Len(capped) |-> capped[c].removed])]],
                argument |-> MarkupAfterCapping(markup, Len(markup.chapters))]

\* get_quality_metrics / get_sparsity_metrics: both walk
\* markup['chapters'] with chapter.get('content', []), which raises
\* AttributeError on a chapter that is a list
SegmentsWithEffects(markup) ==
  SumSeq([c \in 1..Len(markup.chapters) |->
            Cardinality({i \in 1..Len(markup.chapters[c].content) :
                           markup.chapters[c].content[i].effects # <<>>})])

GetQualityMetrics(markup) ==
  IF \E c \in 1..Len(markup.chapters) : markup.chapters[c].shape # "dict"
  THEN [raised |-> TRUE, total_content_items |-> 0, items_with_effects |-> 0]
  ELSE [raised |-> FALSE, total_content_items |-> CountTotalSegments(markup),
        items_with_effects |-> SegmentsWithEffects(markup)]

GetSparsityMetrics(markup) ==
  IF \E c \in 1..Len(markup.chapters) : markup.chapters[c].shape # "dict"
  THEN [raised |-> TRUE, total_segments |-> 0, segments_with_effects |-> 0]
  ELSE [raised |-> FALSE, total_segments |-> CountTotalSegments(markup),
        segments_with_effects |-> SegmentsWithEffects(markup)]

\* ------------------------------------------------------- story_analyzer.py
theme_order == <<"historical", "romance", "adventure", "mystery", "scifi">>
theme_keywords ==
  [historical |-> {"king", "queen", "castle", "sword", "battle", "ancient"},
   romance |-> {"love", "heart", "kiss", "romance", "passion"},
   adventure |-> {"journey", "quest", "adventure", "explore", "discover"},
   mystery |-> {"secret", "mystery", "clue", "investigate", "solve"},
   scifi |-> {"space", "future", "robot", "technology", "planet"}]

\* _determine_book_theme: max(theme_scores, key=theme_scores.get) over the
\* five themes; the keyword test runs over the joined text of the book
DetermineBookTheme(chapters) ==
  LET texts == AllTexts(chapters)
      score == [t \in DOMAIN theme_keywords |->
                  Cardinality({k \in theme_keywords[t] :
                                 \E i \in 1..Len(texts) : HasKw(texts[i], k)})]
  IN  ArgMaxFirst(theme_order, score, theme_order[1])

\* _get_character_relevance
GetCharacterRelevance(text, character_profiles) ==
  [n \in {p.name : p \in character_profiles} |->
     IF Mentions(text, n) THEN 8000 ELSE 1000]

\* _apply_emotional_scoring raises (text.lower() on None in
\* _get_character_relevance) when a text is None and a profile exists
ScoringRaises(book, character_profiles) ==
  AnyTextNull(book) /\ character_profiles # {}

\* _apply_emotional_scoring: {**content_item, emotional_score, ...} per item,
\* {**chapter, content} per chapter
ApplyEmotionalScoring(book, structure, character_profiles) ==
  [c \in 1..Len(book.chapters) |->
     [shape |-> "dict",
      title |-> book.chapters[c].title,
      chapterTitle |-> "",
      bookTitle |-> book.chapters[c].bookTitle,
      structural_role |-> book.chapters[c].structural_role,
      content |-> [i \in 1..Len(book.chapters[c].content) |->
         LET item == book.chapters[c].content[i]
         IN  [type |-> item.type,
              text |-> item.text,
              chapter |-> item.chapter,
              position |-> item.position,
              scored |-> TRUE,
              emotional_score |-> CalculateEmotionalWeight(item, structure, character_profiles),
              primary_emotion |-> GetEmotionalContext(item),
              character_relevance |-> GetCharacterRelevance(item.text, character_profiles),
              effects |-> <<>>]]]]

\* an analysis_metadata without the key effect_distribution, and an
\* effect_distribution without the key average_effects_per_chapter
NoAverage == Quotient(0, 0)
NoDistribution ==
  [total_effects |-> -1, distribution |-> {}, average_effects_per_chapter |-> NoAverage]

\* _analyze_effect_distribution divides by max(chapter_distribution.keys()):
\* ZeroDivisionError when every history entry lies in chapter 0
EffectDistributionRaises(history) ==
  /\ history # <<>>
  /\ MaxOf({history[k].chapter : k \in 1..Len(history)}) = 0

\* _analyze_effect_distribution, where it does not raise; distribution is
\* the dict chapter -> count as a set of <<chapter, count>> pairs
AnalyzeEffectDistribution(history) ==
  IF history = <<>>
  THEN [total_effects |-> 0, distribution |-> {}, average_effects_per_chapter |-> NoAverage]
  ELSE LET chapters == {history[k].chapter : k \in 1..Len(history)}
       IN  [total_effects |-> Len(history),
            distribution |-> {<<c, Cardinality({k \in 1..Len(history) : history[k].chapter = c})>> :
                                c \in chapters},
            average_effects_per_chapter |-> Quotient(Len(history), MaxOf(chapters))]

\* the return statement of _apply_intelligent_effects raises on
\* enhanced_chapters[0] (no chapter), on ' '.join over a None text, and in
\* _analyze_effect_distribution
BuildMarkupRaises(chapters, history) ==
  \/ chapters = <<>>
  \/ \E c \in 1..Len(chapters) :
       \E i \in 1..Len(chapters[c].content) : chapters[c].content[i].text.null
  \/ EffectDistributionRaises(history)

NoMetadata == [present |-> FALSE, total_effects_removed |-> 0]

\* the dict returned by _apply_intelligent_effects
BuildMarkup(enhanced, final, history) ==
  [bookTitle |-> IF enhanced[1].bookTitle # "" THEN enhanced[1].bookTitle ELSE "Unknown",
   theme |-> DetermineBookTheme(enhanced),
   chapters |-> final,
   analysis_metadata |-> [status |-> "", error |-> "", total_effects_applied |-> Len(history),
                          effect_distribution |-> AnalyzeEffectDistribution(history)],
   quality_metadata |-> NoMetadata,
   sparsity_metadata |-> NoMetadata]

\* _create_fallback_markup taking the title as _apply_intelligent_effects
\* does, from the first chapter
CreateFallbackMarkup_ChapterTitle(book) ==
  [bookTitle |-> IF book.chapters # <<>> /\ book.chapters[1].bookTitle # ""
                 THEN book.chapters[1].bookTitle ELSE "Unknown",
   theme |-> "general",
   chapters |-> [c \in 1..Len(book.chapters) |->
      [shape |-> "dict",
       title |-> "",
       chapterTitle |-> book.chapters[c].title,
       bookTitle |-> "",
       structural_role |-> "",
       content |-> [i \in 1..Len(book.chapters[c].content) |->
          [type |-> book.chapters[c].content[i].type,
           text |-> book.chapters[c].content[i].text,
           chapter |-> -1,
           position |-> -1,
           scored |-> FALSE,
           emotional_score |-> 0,
           primary_emotion |-> "",
           character_relevance |-> <<>>,
           effects |-> <<>>]]]],
   analysis_metadata |-> [status |-> "fallback",
                          error |-> "Analysis pipeline failed, using basic markup",
                          total_effects_applied |-> 0,
                          effect_distribution |-> NoDistribution],
   quality_metadata |-> NoMetadata,
   sparsity_metadata |-> NoMetadata]

\* _create_fallback_markup
CreateFallbackMarkup(book) ==
  [bookTitle |-> book.title,
   theme |-> "general",
   chapters |-> [c \in 1..Len(book.chapters) |->
      [shape |-> "dict",
       title |-> "",
       chapterTitle |-> book.chapters[c].title,
       bookTitle |-> "",
       structural_role |-> "",
       content |-> [i \in 1..Len(book.chapters[c].content) |->
          [type |-> book.chapters[c].content[i].type,
           text |-> book.chapters[c].content[i].text,
           chapter |-> -1,
           position |-> -1,
           scored |-> FALSE,
           emotional_score |-> 0,
           primary_emotion |-> "",
           character_relevance |-> <<>>,
           effects |-> <<>>]]]],
   analysis_metadata |-> [status |-> "fallback",
                          error |-> "Analysis pipeline failed, using basic markup",
                          total_effects_applied |-> 0,
                          effect_distribution |-> NoDistribution],
   quality_metadata |-> NoMetadata,
   sparsity_metadata |-> NoMetadata]

\* --------------------------------------------------------------- the inputs
\* words and texts of the input alphabet
W(tag, kw) == [tag |-> tag, kw |-> kw, name |-> ""]
NameWord(name) == [tag |-> 0, kw |-> {}, name |-> name]

TextOf(cls, tag) ==
  CASE cls = "plain" -> [null |-> FALSE, words |-> <<W(tag, {})>>]
    [] cls = "micro" -> [null |-> FALSE, words |-> <<W(tag, {"suddenly", "fight", "heard"})>>]
    [] cls = "moderate" ->
         [null |-> FALSE,
          words |-> <<W(tag, {"suddenly", "finally", "heard", "fight", "magic", "light"})>>]
    [] cls = "dramatic" ->
         [null |-> FALSE,
          words |-> <<W(tag, {"suddenly", "saw", "heard", "felt", "fight", "light", "magic"})>>]
    [] cls = "romance" ->
         [null |-> FALSE,
          words |-> <<W(tag, {"suddenly", "finally", "saw", "fight", "hate", "fire", "romance"})>>]
    [] cls = "named" ->
         [null |-> FALSE,
          words |-> <<W(tag, {"suddenly", "finally", "quickly", "saw", "heard", "felt",
                              "fight", "hate"}),
                      NameWord("Anna")>>]
    [] cls = "burning" ->
         [null |-> FALSE,
          words |-> <<W(tag, {"suddenly", "saw", "looked", "heard", "felt", "hate", "rage",
                              "fire"})>>]
    [] cls = "fantasy" -> [null |-> FALSE, words |-> <<W(tag, {"magic", "mystic", "light"})>>]
    [] cls = "noir" -> [null |-> FALSE, words |-> <<W(tag, {"dark", "shadow", "smoke"})>>]
    [] cls = "double_quoted" -> [null |-> FALSE, words |-> <<W(tag, {}), W(tag + 1, {"\""})>>]
    [] cls = "single_quoted" -> [null |-> FALSE, words |-> <<W(tag, {}), W(tag + 1, {"'"})>>]
    [] cls = "null" -> [null |-> TRUE, words |-> <<>>]

\* a parsed segment: {"type": "paragraph", "text": ...}, no chapter or
\* position key
Segment(cls, tag) ==
  [type |-> "paragraph", text |-> TextOf(cls, tag), chapter |-> -1, position |-> -1]

ChapterTitles == <<"Chapter A", "Chapter B", "Chapter C", "Chapter D">>

\* a parsed chapter: {"title": ..., "content": [...]}
Chapter(c, classes) ==
  [title |-> ChapterTitles[c], bookTitle |-> "", structural_role |-> "",
   content |-> [i \in 1..Len(classes) |-> Segment(classes[i], 100 * c + i)]]

Book(title, classeses) ==
  [title |-> title, chapters |-> [c \in 1..Len(classeses) |-> Chapter(c, classeses[c])]]

SeqsUpTo(S, n) == UNION {[1..k -> S] : k \in 0..n}

ShortClasses == {"plain", "moderate", "null"}

\* every book of at most MaxChapters chapters of at most MaxSegs segments
ShortBooks ==
  {Book("Sample Book", cs) : cs \in SeqsUpTo(SeqsUpTo(ShortClasses, MaxSegs), MaxChapters)}

\* books with a chapter long enough for a chapter cap of at least one, and
\* books with the remaining text classes
LongBooks ==
  {Book("Sample Book", <<first, [i \in 1..LongLen |-> "dramatic"]>>) :
     first \in {<<"plain">>, <<"moderate">>}}
  \cup {Book("Sample Book", cs) :
          cs \in {<<<<"plain">>, <<"named", "plain">>>>,
                  <<<<"micro">>, <<"plain", "dramatic", "micro">>>>,
                  <<<<"named">>, <<"romance", "named">>>>,
                  <<<<"plain">>, <<"burning", "plain">>>>}}

Books == ShortBooks \cup LongBooks

\* ------------------------------------------------------------ the pipeline
VARIABLES
  db_book,            \* the Book row of the processing job (book in routers/books.py)
  book_theme,         \* the book_theme argument of select_appropriate_effects
  parsed_book,        \* the argument of analyze_and_enhance
  fault,              \* the stage analysis inside which a failure is forced
  pc,                 \* the step analyze_and_enhance is about to run
  structure_data,     \* result of step 1
  character_profiles, \* result of step 2
  enhanced_chapters,  \* result of step 3
  final_chapters,     \* _apply_intelligent_effects: chapters finished so far
  enhanced_content,   \* _apply_intelligent_effects: items of the current chapter
  effect_history,     \* _apply_intelligent_effects: running history
  final_markup,       \* result of step 4, argument of validate_all_effects
  validated_markup,   \* result of step 5, argument of enforce_sparsity_rules
  revalidated_markup, \* validate_all_effects applied to its own result
  final_result,       \* what analyze_and_enhance returns
  peer                \* the working set of a second call on the same StoryAnalyzer

vars == <<db_book, book_theme, parsed_book, fault, pc, structure_data, character_profiles, enhanced_chapters,
          final_chapters, enhanced_content, effect_history, final_markup,
          validated_markup, revalidated_markup, final_result, peer>>

NoBook == [title |-> "", chapters |-> <<>>]

NoMarkup ==
  [bookTitle |-> "", theme |-> "", chapters |-> <<>>,
   analysis_metadata |-> [status |-> "", error |-> "", total_effects_applied |-> 0,
                          effect_distribution |-> NoDistribution],
   quality_metadata |-> NoMetadata, sparsity_metadata |-> NoMetadata]

\* routers/books.py upload_book: the Book row is created with
\* processing_status "pending" and no markup
NewBook ==
  [processing_status |-> "pending", markup |-> NoMarkup, processing_error |-> "",
   total_effects |-> 0]

\* the local variables of one analyze_and_enhance call; NoCall when no
\* second call is running
NewCall(book) ==
  [pc |-> "structural",
   parsed_book |-> book,
   structure_data |-> CreateFallbackStructureAnalysis,
   character_profiles |-> {},
   enhanced_chapters |-> <<>>,
   final_chapters |-> <<>>,
   enhanced_content |-> <<>>,
   effect_history |-> <<>>,
   final_markup |-> NoMarkup,
   validated_markup |-> NoMarkup,
   final_result |-> NoMarkup]

NoCall == [NewCall(NoBook) EXCEPT !.pc = "idle"]

\* one list shared by the calls running on the StoryAnalyzer instance
EffectHistoryOfCall_OnInstance(own, other) == own \o other

\* the list _apply_intelligent_effects hands to the selector and appends to:
\* effect_history = [] is a local of the call, other calls' lists are not in it
EffectHistoryOfCall(own, other) == own

Faults == {"none", "structural", "character"}

\* a failure is forced inside an analyzer on the short books only
Init ==
  /\ \/ parsed_book \in ShortBooks /\ fault \in Faults
     \/ parsed_book \in LongBooks /\ fault = "none"
  /\ pc = "structural"
  /\ db_book = NewBook
  /\ book_theme = "general"
  /\ structure_data = CreateFallbackStructureAnalysis
  /\ character_profiles = {}
  /\ enhanced_chapters = <<>>
  /\ final_chapters = <<>>
  /\ enhanced_content = <<>>
  /\ effect_history = <<>>
  /\ final_markup = NoMarkup
  /\ validated_markup = NoMarkup
  /\ revalidated_markup = NoMarkup
  /\ peer = NoCall
  /\ final_result = NoMarkup

\* the except branch of analyze_and_enhance
Fallback ==
  /\ final_result' = CreateFallbackMarkup(parsed_book)
  /\ pc' = "done"

\* Step 1: structure_analyzer.analyze_narrative_structure(parsed_book)
StructuralAnalysis ==
  /\ pc = "structural"
  /\ structure_data' = AnalyzeNarrativeStructure(parsed_book, fault = "structural")
  /\ pc' = "character"
  /\ UNCHANGED <<peer, db_book, book_theme, parsed_book, fault, character_profiles, enhanced_chapters, final_chapters,
                 enhanced_content, effect_history, final_markup, validated_markup,
                 revalidated_markup, final_result>>

\* Step 2: character_analyzer.analyze_character_arcs(parsed_book)
CharacterAnalysis ==
  /\ pc = "character"
  /\ character_profiles' = AnalyzeCharacterArcs(parsed_book, fault = "character")
  /\ pc' = "scoring"
  /\ UNCHANGED <<peer, db_book, book_theme, parsed_book, fault, structure_data, enhanced_chapters, final_chapters,
                 enhanced_content, effect_history, final_markup, validated_markup,
                 revalidated_markup, final_result>>

\* Step 3: _apply_emotional_scoring
EmotionalScoring ==
  /\ pc = "scoring"
  /\ IF ScoringRaises(parsed_book, character_profiles)
     THEN Fallback /\ UNCHANGED enhanced_chapters
     ELSE /\ enhanced_chapters' =
               ApplyEmotionalScoring(parsed_book, structure_data, character_profiles)
          /\ pc' = "selecting"
          /\ UNCHANGED final_result
  /\ UNCHANGED <<peer, db_book, book_theme, parsed_book, fault, structure_data, character_profiles, final_chapters,
                 enhanced_content, effect_history, final_markup, validated_markup,
                 revalidated_markup>>

\* the chapter the loop of _apply_intelligent_effects is in
CurrentChapter == enhanced_chapters[Len(final_chapters) + 1]

\* Step 4, inner loop body: one content item; draw is the random draw of
\* _should_apply_effects.  _apply_intelligent_effects calls the selector
\* without book_theme, which is then the default 'general'.
SelectSegment ==
  /\ pc = "selecting"
  /\ Len(final_chapters) < Len(enhanced_chapters)
  /\ Len(enhanced_content) < Len(CurrentChapter.content)
  /\ \E draw \in BOOLEAN :
       LET content_item == CurrentChapter.content[Len(enhanced_content) + 1]
           history == EffectHistoryOfCall(effect_history, peer.effect_history)
           selected_effects ==
             SelectAppropriateEffects(content_item, character_profiles, history,
                                      book_theme, draw)
       IN  /\ enhanced_content' =
                Append(enhanced_content, [content_item EXCEPT !.effects = selected_effects])
           /\ effect_history' =
                IF selected_effects # <<>>
                THEN Append(history,
                            [chapter |-> Len(final_chapters),
                             position |-> Len(enhanced_content),
                             effects |-> selected_effects])
                ELSE history
  /\ UNCHANGED <<peer, db_book, book_theme, parsed_book, fault, pc, structure_data, character_profiles,
                 enhanced_chapters, final_chapters, final_markup, validated_markup,
                 revalidated_markup, final_result>>

\* Step 4, end of the outer loop body: final_chapters.append({**chapter, ...})
CloseChapter ==
  /\ pc = "selecting"
  /\ Len(final_chapters) < Len(enhanced_chapters)
  /\ Len(enhanced_content) = Len(CurrentChapter.content)
  /\ final_chapters' = Append(final_chapters, [CurrentChapter EXCEPT !.content = enhanced_content])
  /\ enhanced_content' = <<>>
  /\ UNCHANGED <<peer, db_book, book_theme, parsed_book, fault, pc, structure_data, character_profiles,
                 enhanced_chapters, effect_history, final_markup, validated_markup,
                 revalidated_markup, final_result>>

\* Step 4, the return statement of _apply_intelligent_effects
FinishSelection ==
  /\ pc = "selecting"
  /\ Len(final_chapters) = Len(enhanced_chapters)
  /\ IF BuildMarkupRaises(enhanced_chapters, effect_history)
     THEN Fallback /\ UNCHANGED final_markup
     ELSE /\ final_markup' = BuildMarkup(enhanced_chapters, final_chapters, effect_history)
          /\ pc' = "quality"
          /\ UNCHANGED final_result
  /\ UNCHANGED <<peer, db_book, book_theme, parsed_book, fault, structure_data, character_profiles, enhanced_chapters,
                 final_chapters, enhanced_content, effect_history, validated_markup,
                 revalidated_markup>>

\* Step 5: quality_controller.validate_all_effects(final_markup)
QualityControl ==
  /\ pc = "quality"
  /\ validated_markup' = ValidateAllEffects(final_markup)
  /\ pc' = "sparsity"
  /\ UNCHANGED <<peer, db_book, book_theme, parsed_book, fault, structure_data, character_profiles, enhanced_chapters,
                 final_chapters, enhanced_content, effect_history, final_markup,
                 revalidated_markup, final_result>>

\* Step 6: sparsity_controller.enforce_sparsity_rules(validated_markup); the
\* call clears effects inside the items of validated_markup
SparsityControl ==
  /\ pc = "sparsity"
  /\ LET out == EnforceSparsityRules(validated_markup)
     IN  /\ final_result' = out.returned
         /\ validated_markup' = out.argument
  /\ pc' = "done"
  /\ UNCHANGED <<peer, db_book, book_theme, parsed_book, fault, structure_data, character_profiles, enhanced_chapters,
                 final_chapters, enhanced_content, effect_history, final_markup,
                 revalidated_markup>>

Next ==
  \/ StructuralAnalysis
  \/ CharacterAnalysis
  \/ EmotionalScoring
  \/ SelectSegment
  \/ CloseChapter
  \/ FinishSelection
  \/ QualityControl
  \/ SparsityControl

Spec == Init /\ [][Next]_vars

\* ------------------------------------------- the two controllers on their own
\* validate_all_effects, then enforce_sparsity_rules, on a markup that is
\* given directly (as tests/test_intelligent_analysis.py test_quality_control
\* does), and validate_all_effects applied once more to its own result.

MaxEffects == 4
StageChapters == 3

EffectCatalog ==
  {Effect("text_style", "fiery_sharp", "", "", 0, 9000, "", 0),
   Effect("text_style", "calm_gentle", "", "", 0, 6000, "Anna", 0),
   Effect("word_effect", "", "burn", "", 1, 8000, "", 0),
   Effect("sound", "", "", "heartbeat.mp3", 0, 7000, "", 5000),
   Effect("particle", "", "", "", 0, 5000, "", 0)}

StageItem(text, position, score, relevance, effects) ==
  [type |-> "paragraph", text |-> text, chapter |-> -1, position |-> position, scored |-> TRUE,
   emotional_score |-> score, primary_emotion |-> "neutral",
   character_relevance |-> relevance, effects |-> effects]

StageChapter(c, items) ==
  [shape |-> "dict", title |-> ChapterTitles[c], chapterTitle |-> "", bookTitle |-> "",
   structural_role |-> "", content |-> items]

StageMarkup(chapters) ==
  [bookTitle |-> "Test Book", theme |-> "test", chapters |-> chapters,
   analysis_metadata |-> [status |-> "", error |-> "", total_effects_applied |-> 0,
                          effect_distribution |-> NoDistribution],
   quality_metadata |-> NoMetadata, sparsity_metadata |-> NoMetadata]

\* one segment carrying any list of at most MaxEffects catalog effects
EffectMarkups ==
  {StageMarkup(<<StageChapter(1, <<StageItem(TextOf(cls, 101), -1, score, [n \in {"Anna"} |-> rel],
                                             effects)>>)>>) :
     cls \in {"plain", "romance"}, score \in {4000, 9000}, rel \in {1000, 8000},
     effects \in SeqsUpTo(EffectCatalog, MaxEffects)}

\* at most StageChapters chapters of LongLen segments, each chapter of high
\* (0.9) or middling (0.55) score throughout, with at most MaxEffectSegs
\* effect-bearing segments, placed at the first, second or last segment of a
\* chapter; the items either all carry their index as 'position' or none does
LongShapes == {s \in SeqsUpTo({5500, 9000}, StageChapters) : s # <<>> /\ s[Len(s)] = 9000}

SubsetsUpTo(S, n) == {T \in SUBSET S : Cardinality(T) <= n}

EffectSlots == {1, 2, LongLen}

LongMarkups ==
  {StageMarkup([c \in 1..Len(shape) |->
      StageChapter(c, [i \in 1..LongLen |->
         StageItem(TextOf("plain", 100 * c + i), IF positioned THEN i - 1 ELSE -1,
                   shape[c], <<>>,
                   IF <<c, i>> \in where
                   THEN <<Effect("text_style", "fiery_sharp", "", "", 0, 9000, "", 0)>>
                   ELSE <<>>)])]) :
     shape \in LongShapes,
     where \in SubsetsUpTo((1..StageChapters) \X EffectSlots, MaxEffectSegs),
     positioned \in BOOLEAN}

StageMarkups == EffectMarkups \cup LongMarkups

InitStages ==
  /\ final_markup \in StageMarkups
  /\ pc = "quality"
  /\ db_book = NewBook
  /\ book_theme = "general"
  /\ parsed_book = NoBook
  /\ fault = "none"
  /\ structure_data = CreateFallbackStructureAnalysis
  /\ character_profiles = {}
  /\ enhanced_chapters = <<>>
  /\ final_chapters = <<>>
  /\ enhanced_content = <<>>
  /\ effect_history = <<>>
  /\ validated_markup = NoMarkup
  /\ revalidated_markup = NoMarkup
  /\ peer = NoCall
  /\ final_result = NoMarkup

\* validate_all_effects(validate_all_effects(m))
QualityAgain ==
  /\ pc = "sparsity"
  /\ revalidated_markup = NoMarkup
  /\ revalidated_markup' = ValidateAllEffects(validated_markup)
  /\ UNCHANGED <<peer, db_book, book_theme, parsed_book, fault, pc, structure_data, character_profiles,
                 enhanced_chapters, final_chapters, enhanced_content, effect_history,
                 final_markup, validated_markup, final_result>>

NextStages ==
  \/ QualityControl
  \/ QualityAgain
  \/ SparsityControl

SpecStages == InitStages /\ [][NextStages]_vars

\* ------------------------------------------------------------- properties
\* analyze_and_enhance has returned
Returned == pc = "done"

\* the returned markup is the fallback markup (analysis_metadata.status)
IsFallback(markup) == markup.analysis_metadata.status = "fallback"

\* the texts of a content list, in list order
TextsOf(content) == [i \in 1..Len(content) |-> content[i].text]

\* number of effects over all segments of a markup
TotalEffects(markup) ==
  SumSeq([c \in 1..Len(markup.chapters) |->
            SumSeq([i \in 1..Len(markup.chapters[c].content) |->
                      Len(markup.chapters[c].content[i].effects)])])

\* ----------------------------------------------------- the processing job
\* routers/books.py process_book_background(book_id, file_path, session):
\* the background task started by upload_book on the shared story_analyzer.

\* the statistics loop of process_book_background calls chapter.get on every
\* chapter of the markup: AttributeError on a chapter that is a bare list
EffectStatisticsRaises(markup) ==
  \E c \in 1..Len(markup.chapters) : markup.chapters[c].shape # "dict"

InitJob ==
  /\ \/ parsed_book \in ShortBooks /\ fault \in Faults
     \/ parsed_book \in LongBooks /\ fault = "none"
  /\ pc = "job_pending"
  /\ db_book = NewBook
  /\ book_theme = "general"
  /\ structure_data = CreateFallbackStructureAnalysis
  /\ character_profiles = {}
  /\ enhanced_chapters = <<>>
  /\ final_chapters = <<>>
  /\ enhanced_content = <<>>
  /\ effect_history = <<>>
  /\ final_markup = NoMarkup
  /\ validated_markup = NoMarkup
  /\ revalidated_markup = NoMarkup
  /\ peer = NoCall
  /\ final_result = NoMarkup

\* book.processing_status = "processing"; session.commit()
BeginProcessing ==
  /\ pc = "job_pending"
  /\ db_book' = [db_book EXCEPT !.processing_status = "processing"]
  /\ pc' = "job_parse"
  /\ UNCHANGED <<peer, book_theme, parsed_book, fault, structure_data, character_profiles, enhanced_chapters,
                 final_chapters, enhanced_content, effect_history, final_markup,
                 validated_markup, revalidated_markup, final_result>>

\* parsed_book = parse_epub(file_path): the file upload_book has parsed
\* before; parses is FALSE when the second parse raises, which ends the job
\* in the except branch
ParseEpub ==
  /\ pc = "job_parse"
  /\ \E parses \in BOOLEAN :
       IF parses
       THEN pc' = "structural" /\ UNCHANGED db_book
       ELSE /\ db_book' = [db_book EXCEPT !.processing_status = "failed",
                                           !.processing_error = "parse_epub"]
            /\ pc' = "job_end"
  /\ UNCHANGED <<peer, book_theme, parsed_book, fault, structure_data, character_profiles, enhanced_chapters,
                 final_chapters, enhanced_content, effect_history, final_markup,
                 validated_markup, revalidated_markup, final_result>>

\* the rest of process_book_background after analyze_and_enhance returned:
\* book.markup = markup and processing_status = "completed" are assigned,
\* then the effect statistics are computed and the row is committed; when
\* the statistics raise, the except branch sets "failed" on the same row
\* object and commits it
StoreResult ==
  /\ pc = "done"
  /\ db_book.processing_status = "processing"
  /\ db_book' =
       IF EffectStatisticsRaises(final_result)
       THEN [db_book EXCEPT !.markup = final_result,
                            !.processing_status = "failed",
                            !.processing_error = "'list' object has no attribute 'get'"]
       ELSE [db_book EXCEPT !.markup = final_result,
                            !.processing_status = "completed",
                            !.total_effects = TotalEffects(final_result)]
  /\ pc' = "job_end"
  /\ UNCHANGED <<peer, book_theme, parsed_book, fault, structure_data, character_profiles, enhanced_chapters,
                 final_chapters, enhanced_content, effect_history, final_markup,
                 validated_markup, revalidated_markup, final_result>>

NextJob ==
  \/ BeginProcessing
  \/ ParseEpub
  \/ StructuralAnalysis
  \/ CharacterAnalysis
  \/ EmotionalScoring
  \/ SelectSegment
  \/ CloseChapter
  \/ FinishSelection
  \/ QualityControl
  \/ SparsityControl
  \/ StoreResult

SpecJob == InitJob /\ [][NextJob]_vars

SelectorThemes == {"general", "fantasy", "noir", "romance"}

\* an item carrying the emotional data the selector reads
SelectorItem(cls, score, emotion) ==
  [type |-> "paragraph", text |-> TextOf(cls, 101), chapter |-> -1, position |-> -1,
   scored |-> TRUE, emotional_score |-> score, primary_emotion |-> emotion,
   character_relevance |-> <<>>, effects |-> <<>>]

SelectorItems ==
  {SelectorItem(cls, score, emotion) :
     cls \in {"plain", "moderate", "fantasy", "noir", "romance", "named"},
     score \in {4000, 5500, 6000, 7000, 8000, 9000},
     emotion \in {"neutral", "wonder", "mystery"}}

\* a history of n earlier selections
HistoryOf(n) ==
  [k \in 1..n |-> [chapter |-> 0, position |-> k - 1,
                   effects |-> <<Effect("text_style", "calm_gentle", "", "", 0, 4000, "", 0)>>]]

InitSelector ==
  /\ \E item \in SelectorItems : enhanced_chapters = <<StageChapter(1, <<item>>)>>
  /\ book_theme \in SelectorThemes
  /\ effect_history \in {HistoryOf(n) : n \in 0..MaxEffectSegs}
  /\ pc = "selecting"
  /\ db_book = NewBook
  /\ parsed_book = NoBook
  /\ fault = "none"
  /\ structure_data = CreateFallbackStructureAnalysis
  /\ character_profiles = {}
  /\ final_chapters = <<>>
  /\ enhanced_content = <<>>
  /\ final_markup = NoMarkup
  /\ validated_markup = NoMarkup
  /\ revalidated_markup = NoMarkup
  /\ peer = NoCall
  /\ final_result = NoMarkup

NextSelector ==
  \/ SelectSegment
  \/ CloseChapter

SpecSelector == InitSelector /\ [][NextSelector]_vars

\* the key of the effect in effect_library
CatalogName(e) ==
  IF e.sound # ""
  THEN CHOOSE n \in {"swords_clash", "gentle_wind", "heartbeat"} : SoundFile(n) = e.sound
  ELSE EffectName(e)

\* C12: no effect returned by select_appropriate_effects has a catalog entry
\* whose theme list contains neither the given book_theme nor 'general',
\* whatever trigger keywords the text holds.
C12_ThemeFilter ==
  \A i \in 1..Len(enhanced_content) :
    \A k \in 1..Len(enhanced_content[i].effects) :
      LET themes == effect_library[CatalogName(enhanced_content[i].effects[k])].themes
      IN  book_theme \in themes \/ "general" \in themes

\* a fantasy book gets fantasy_glow: the effect is returned when book_theme
\* is in its theme list
C12_Witness ==
  /\ book_theme = "fantasy"
  /\ \E i \in 1..Len(enhanced_content) :
       \E k \in 1..Len(enhanced_content[i].effects) :
         enhanced_content[i].effects[k].style = "fantasy_glow"

\* _apply_intelligent_effects has left its loops and evaluated (or failed to
\* evaluate) its return statement
SelectionFinished == pc \in {"quality", "sparsity", "done", "job_end"}

\* C13: for a non-empty effect history the reported distribution holds, per
\* chapter that occurs in the history, the number of its entries, and
\* average_effects_per_chapter is the number of entries divided by the
\* number of distinct chapters in the history.
C13_DistributionAverage ==
  (SelectionFinished /\ effect_history # <<>>) =>
     LET report == final_markup.analysis_metadata.effect_distribution
         chapters == {effect_history[k].chapter : k \in 1..Len(effect_history)}
     IN  /\ report.total_effects = Len(effect_history)
         /\ report.distribution =
              {<<c, Cardinality({k \in 1..Len(effect_history) : effect_history[k].chapter = c})>> :
                 c \in chapters}
         /\ report.average_effects_per_chapter.den # 0
         /\ report.average_effects_per_chapter.num * Cardinality(chapters)
              = Len(effect_history) * report.average_effects_per_chapter.den

\* --------------------------------------- the structural analyzer on its own
\* analyze_narrative_structure on chapters of quoted and unquoted segments,
\* as tests/test_dialogue_detection.py builds them.
MaxQuoteSegs == 3

QuoteClasses == {"plain", "double_quoted", "single_quoted", "null"}

QuoteBooks ==
  {Book("Sample Book", <<cs>>) : cs \in SeqsUpTo(QuoteClasses, MaxQuoteSegs)}

InitStructure ==
  /\ parsed_book \in QuoteBooks
  /\ fault \in {"none", "structural"}
  /\ pc = "structural"
  /\ db_book = NewBook
  /\ book_theme = "general"
  /\ structure_data = CreateFallbackStructureAnalysis
  /\ character_profiles = {}
  /\ enhanced_chapters = <<>>
  /\ final_chapters = <<>>
  /\ enhanced_content = <<>>
  /\ effect_history = <<>>
  /\ final_markup = NoMarkup
  /\ validated_markup = NoMarkup
  /\ revalidated_markup = NoMarkup
  /\ peer = NoCall
  /\ final_result = NoMarkup

NextStructure ==
  \/ StructuralAnalysis

SpecStructure == InitStructure /\ [][NextStructure]_vars

\* the text holds a quote character of either style
HasQuote(text) == HasKw(text, "\"") \/ HasKw(text, "'")

\* C14: the dialogue density the structural analysis reports for a chapter
\* is the fraction of the chapter's segments that hold a quotation in either
\* quote style, single quotes counting like double quotes.
C14_DialogueDensity ==
  (pc # "structural" /\ fault = "none" /\ ~StructureRaises(parsed_book)) =>
     /\ Len(structure_data.chapter_analysis) = Len(parsed_book.chapters)
     /\ \A c \in 1..Len(parsed_book.chapters) :
          LET content == parsed_book.chapters[c].content
              density == structure_data.chapter_analysis[c].dialogue_density
          IN  content # <<>> =>
                density.num * Len(content)
                  = density.den * Cardinality({i \in 1..Len(content) : HasQuote(content[i].text)})

\* every scored segment of the chapters has its emotional_score in [0,1],
\* and every effect its intensity in [0,1]
InUnitRange(chapters) ==
  \A c \in 1..Len(chapters) :
    \A i \in 1..Len(chapters[c].content) :
      LET item == chapters[c].content[i]
      IN  /\ item.scored => (0 <= item.emotional_score /\ item.emotional_score <= One)
          /\ \A k \in 1..Len(item.effects) :
               0 <= item.effects[k].intensity /\ item.effects[k].intensity <= One

\* C15: in every markup the pipeline produces (the scored chapters, the
\* selector's output, the validated markup and the returned markup), every
\* emotional_score and every effect intensity lies in [0,1].
C15_UnitRange ==
  /\ InUnitRange(enhanced_chapters)
  /\ InUnitRange(final_chapters)
  /\ InUnitRange(final_markup.chapters)
  /\ InUnitRange(validated_markup.chapters)
  /\ InUnitRange(final_result.chapters)

\* the selector's markup holds a segment whose weighted sum exceeds 1.0 and
\* is clamped, with an effect whose threshold plus trigger boost exceeds 1.0
\* and is clamped
C15_Witness ==
  /\ SelectionFinished
  /\ \E c \in 1..Len(final_markup.chapters) :
       \E i \in 1..Len(final_markup.chapters[c].content) :
         LET item == final_markup.chapters[c].content[i]
         IN  /\ item.emotional_score = One
             /\ CalculateEmotionalWeight_NoClamp(item, structure_data, character_profiles) > One
             /\ \E k \in 1..Len(item.effects) :
                  LET config == effect_library[CatalogName(item.effects[k])]
                  IN  /\ item.effects[k].intensity = One
                      /\ config.intensity_threshold
                           + 1000 * Hits(item.text, Range(config.triggers)) > One

\* ------------------------------- the sparsity controller on malformed input
\* enforce_sparsity_rules on markups whose last chapter makes the call fail:
\* a bare list where a chapter dict is expected, or a content entry that is
\* None; and, for comparison, on markups whose last chapter is well formed.

StageEffectLists ==
  {<<>>,
   <<Effect("text_style", "fiery_sharp", "", "", 0, 9000, "", 0)>>,
   <<Effect("text_style", "fiery_sharp", "", "", 0, 9000, "", 0),
     Effect("word_effect", "", "burn", "", 1, 8000, "", 0)>>}

LastChapterKinds == {"dict", "list", "none_item"}

LastChapter(c, kind, item) ==
  CASE kind = "dict" -> StageChapter(c, <<item>>)
    [] kind = "list" -> ListChapter(<<item>>)
    [] kind = "none_item" -> StageChapter(c, <<item, NoneItem>>)

FailingMarkups ==
  {StageMarkup(
     (IF two THEN <<StageChapter(1, <<StageItem(TextOf("plain", 101), -1, 9000, <<>>, e1),
                                      StageItem(TextOf("plain", 102), -1, 5500, <<>>, e2)>>)>>
      ELSE <<>>)
     \o <<StageChapter(2, <<StageItem(TextOf("plain", 201), -1, 9000, <<>>, e2),
                            StageItem(TextOf("plain", 202), -1, 9000, <<>>, e1)>>),
          LastChapter(3, kind, StageItem(TextOf("plain", 301), -1, 9000, <<>>, e3))>>) :
     two \in BOOLEAN, e1 \in StageEffectLists, e2 \in StageEffectLists, e3 \in StageEffectLists,
     kind \in LastChapterKinds}

InitSparsityFailure ==
  /\ validated_markup \in FailingMarkups
  /\ pc = "sparsity"
  /\ db_book = NewBook
  /\ book_theme = "general"
  /\ parsed_book = NoBook
  /\ fault = "none"
  /\ structure_data = CreateFallbackStructureAnalysis
  /\ character_profiles = {}
  /\ enhanced_chapters = <<>>
  /\ final_chapters = <<>>
  /\ enhanced_content = <<>>
  /\ effect_history = <<>>
  /\ final_markup = NoMarkup
  /\ revalidated_markup = NoMarkup
  /\ peer = NoCall
  /\ final_result = NoMarkup

NextSparsityFailure ==
  \/ SparsityControl

SpecSparsityFailure == InitSparsityFailure /\ [][NextSparsityFailure]_vars

\* enforce_sparsity_rules returned from its except branch: the returned
\* markup has no sparsity_metadata
SparsityFailed(markup) == ~markup.sparsity_metadata.present

\* C16: when enforce_sparsity_rules fails internally, the markup it returns
\* equals the markup as it was given when the call started: every segment
\* still carries the effects it had.
C16_FailureLeavesInput ==
  [][(pc = "sparsity" /\ pc' = "done" /\ SparsityFailed(final_result'))
       => final_result' = validated_markup]_vars

\* a is b with zero or more elements left out: the elements of a occur in
\* b, unaltered and in the same order
RECURSIVE IsSubList(_, _)
IsSubList(a, b) ==
  IF a = <<>> THEN TRUE
  ELSE IF b = <<>> THEN FALSE
  ELSE IF Head(a) = Head(b) THEN IsSubList(Tail(a), Tail(b))
  ELSE IsSubList(a, Tail(b))

\* validate_all_effects returned from its except branch: the returned markup
\* has no quality_metadata
QualityFailed(markup) == ~markup.quality_metadata.present

\* C17: after validate_all_effects every segment's effects list is a
\* sub-list of the list the segment had before (nothing added or altered),
\* and when the call fails internally it returns a markup equal to its input.
C17_QualityFrame ==
  (pc = "sparsity") =>
     /\ Len(validated_markup.chapters) = Len(final_markup.chapters)
     /\ \A c \in 1..Len(final_markup.chapters) :
          /\ Len(validated_markup.chapters[c].content) = Len(final_markup.chapters[c].content)
          /\ \A i \in 1..Len(final_markup.chapters[c].content) :
               IsSubList(validated_markup.chapters[c].content[i].effects,
                         final_markup.chapters[c].content[i].effects)
     /\ QualityFailed(validated_markup) => validated_markup = final_markup

\* validate_all_effects failed on a markup holding a segment from which its
\* per-segment validation removes an effect, and returned the input
C17_Witness ==
  /\ pc = "sparsity"
  /\ QualityFailed(validated_markup)
  /\ \E c \in 1..Len(final_markup.chapters) :
       \E i \in 1..Len(final_markup.chapters[c].content) :
         /\ Len(final_markup.chapters[c].content[i].effects) >= 2
         /\ Len(ValidateContentEffects(final_markup.chapters[c].content[i]))
              < Len(final_markup.chapters[c].content[i].effects)
         /\ validated_markup.chapters[c].content[i].effects
              = final_markup.chapters[c].content[i].effects

\* --------------------------------------- two calls on the one StoryAnalyzer
\* routers/books.py: story_analyzer = StoryAnalyzer() is created once, and
\* every process_book_background calls story_analyzer.analyze_and_enhance.
\* The first call runs on the variables of the pipeline, the second on peer;
\* the steps of the two calls interleave.

\* one step of analyze_and_enhance on the locals of a call: the step call.pc
\* names, with draw the random draw of _should_apply_effects
CallStep(call, draw) ==
  CASE call.pc = "structural" ->
         [call EXCEPT !.structure_data = AnalyzeNarrativeStructure(call.parsed_book, FALSE),
                      !.pc = "character"]
    [] call.pc = "character" ->
         [call EXCEPT !.character_profiles = AnalyzeCharacterArcs(call.parsed_book, FALSE),
                      !.pc = "scoring"]
    [] call.pc = "scoring" ->
         IF ScoringRaises(call.parsed_book, call.character_profiles)
         THEN [call EXCEPT !.final_result = CreateFallbackMarkup(call.parsed_book),
                           !.pc = "done"]
         ELSE [call EXCEPT !.enhanced_chapters =
                              ApplyEmotionalScoring(call.parsed_book, call.structure_data,
                                                    call.character_profiles),
                           !.pc = "selecting"]
    [] call.pc = "selecting" ->
         IF Len(call.final_chapters) = Len(call.enhanced_chapters)
         THEN IF BuildMarkupRaises(call.enhanced_chapters, call.effect_history)
              THEN [call EXCEPT !.final_result = CreateFallbackMarkup(call.parsed_book),
                                !.pc = "done"]
              ELSE [call EXCEPT !.final_markup =
                                   BuildMarkup(call.enhanced_chapters, call.final_chapters,
                                               call.effect_history),
                                !.pc = "quality"]
         ELSE LET chapter == call.enhanced_chapters[Len(call.final_chapters) + 1]
              IN  IF Len(call.enhanced_content) = Len(chapter.content)
                  THEN [call EXCEPT !.final_chapters =
                                       Append(call.final_chapters,
                                              [chapter EXCEPT !.content = call.enhanced_content]),
                                    !.enhanced_content = <<>>]
                  ELSE LET content_item == chapter.content[Len(call.enhanced_content) + 1]
                           selected_effects ==
                             SelectAppropriateEffects(content_item, call.character_profiles,
                                                      call.effect_history, "general", draw)
                       IN  [call EXCEPT
                              !.enhanced_content =
                                 Append(call.enhanced_content,
                                        [content_item EXCEPT !.effects = selected_effects]),
                              !.effect_history =
                                 IF selected_effects # <<>>
                                 THEN Append(call.effect_history,
                                             [chapter |-> Len(call.final_chapters),
                                              position |-> Len(call.enhanced_content),
                                              effects |-> selected_effects])
                                 ELSE call.effect_history]
    [] call.pc = "quality" ->
         [call EXCEPT !.validated_markup = ValidateAllEffects(call.final_markup),
                      !.pc = "sparsity"]
    [] call.pc = "sparsity" ->
         [call EXCEPT !.final_result = EnforceSparsityRules(call.validated_markup).returned,
                      !.validated_markup = EnforceSparsityRules(call.validated_markup).argument,
                      !.pc = "done"]
    [] OTHER -> call

\* a step of the second call, between two steps of the first
PeerStep ==
  /\ peer.pc \notin {"idle", "done"}
  /\ \E draw \in BOOLEAN :
       peer' = CallStep([peer EXCEPT !.effect_history =
                           EffectHistoryOfCall(peer.effect_history, effect_history)], draw)
  /\ UNCHANGED <<db_book, book_theme, parsed_book, fault, pc, structure_data, character_profiles,
                 enhanced_chapters, final_chapters, enhanced_content, effect_history,
                 final_markup, validated_markup, revalidated_markup, final_result>>

\* the books of the two calls: two chapters, so that effects selected in the
\* second chapter reach the returned markup
ConcurrentChapters ==
  {<<<<"plain">>, <<"moderate", "plain">>>>,
   <<<<"plain">>, <<"moderate", "moderate">>>>,
   <<<<"moderate">>, <<"plain">>>>}
ConcurrentBooks(title) == {Book(title, cs) : cs \in ConcurrentChapters}

InitConcurrent ==
  /\ parsed_book \in ConcurrentBooks("Sample Book")
  /\ peer \in {NewCall(b) : b \in ConcurrentBooks("Other Book")}
  /\ fault = "none"
  /\ pc = "structural"
  /\ db_book = NewBook
  /\ book_theme = "general"
  /\ structure_data = CreateFallbackStructureAnalysis
  /\ character_profiles = {}
  /\ enhanced_chapters = <<>>
  /\ final_chapters = <<>>
  /\ enhanced_content = <<>>
  /\ effect_history = <<>>
  /\ final_markup = NoMarkup
  /\ validated_markup = NoMarkup
  /\ revalidated_markup = NoMarkup
  /\ final_result = NoMarkup

NextConcurrent ==
  \/ StructuralAnalysis
  \/ CharacterAnalysis
  \/ EmotionalScoring
  \/ SelectSegment
  \/ CloseChapter
  \/ FinishSelection
  \/ QualityControl
  \/ SparsityControl
  \/ PeerStep

SpecConcurrent == InitConcurrent /\ [][NextConcurrent]_vars

\* number of content items the selection loop of a call has gone through
SegmentsDone(call) ==
  SumSeq([c \in 1..Len(call.final_chapters) |-> Len(call.final_chapters[c].content)])
    + Len(call.enhanced_content)

\* the markup a call returns when its steps run with no other call between
\* them and the random draws of its segments are draws, in reading order
RECURSIVE RunAlone(_, _)
RunAlone(call, draws) ==
  IF call.pc = "done" THEN call.final_result
  ELSE RunAlone(CallStep(call, IF SegmentsDone(call) + 1 \in DOMAIN draws
                               THEN draws[SegmentsDone(call) + 1] ELSE FALSE),
                draws)

\* number of content items of a book
SegmentCount(book) ==
  SumSeq([c \in 1..Len(book.chapters) |-> Len(book.chapters[c].content)])

\* every markup analyze_and_enhance can return for a book when run alone
ResultsAlone(book) ==
  {RunAlone(NewCall(book), draws) : draws \in [1..SegmentCount(book) -> BOOLEAN]}

\* C19: two analyze_and_enhance calls on different books whose steps
\* interleave on the shared StoryAnalyzer each return a markup the same call
\* can return when run alone, and while one call takes a step the effect
\* history and the intermediate chapters of the other do not change.
C19_CallsIsolated ==
  /\ [](Returned => final_result \in ResultsAlone(parsed_book))
  /\ []((peer.pc = "done") => peer.final_result \in ResultsAlone(peer.parsed_book))
  /\ [][(peer' # peer) =>
          UNCHANGED <<effect_history, enhanced_chapters, final_chapters, enhanced_content>>]_vars
  /\ [][(<<effect_history, enhanced_chapters, final_chapters, enhanced_content>>'
           # <<effect_history, enhanced_chapters, final_chapters, enhanced_content>>) =>
          /\ peer'.effect_history = peer.effect_history
          /\ peer'.enhanced_chapters = peer.enhanced_chapters
          /\ peer'.final_chapters = peer.final_chapters
          /\ peer'.enhanced_content = peer.enhanced_content]_vars

\* the first call has returned on the normal path with effects selected,
\* having run while the second call was inside its selection loop with a
\* history of its own that is not empty
C19_Witness ==
  /\ Returned /\ ~IsFallback(final_result)
  /\ final_result.analysis_metadata.total_effects_applied > 0
  /\ peer.pc = "selecting" /\ peer.effect_history # <<>>
  /\ parsed_book # peer.parsed_book

\* the content items the selection loop has gone through, in reading order
ProcessedSegments ==
  Concat([c \in 1..Len(final_chapters) |-> final_chapters[c].content]) \o enhanced_content

\* how many of the last 10 segments gone through were given effects
RecentSegmentsWithEffects ==
  Cardinality({k \in DOMAIN LastN(ProcessedSegments, 10) :
                 LastN(ProcessedSegments, 10)[k].effects # <<>>})

\* the recency cap alone keeps _should_apply_effects from returning True for
\* the next segment: it returns False on the highest score and a passing draw
CapSuppresses == ~ShouldApplyEffects(One, effect_history, TRUE)

\* C20: within one run the recency cap is a sliding window in reading order:
\* selection for a segment is suppressed by the cap exactly when more than 2
\* of the last 10 segments before it were given effects, segments without
\* effects counting as entries; after enough effect-free segments the cap
\* suppresses no longer.
C20_SlidingWindow ==
  (pc = "selecting") => (CapSuppresses <=> RecentSegmentsWithEffects > 2)

\* ------------------------------------------------- the chapter cap on its own
\* enforce_sparsity_rules on a markup of one chapter whose effect-bearing
\* segments differ in emotional_score; final_markup keeps the markup as it
\* was given (validate_all_effects hands its input on)
CapSlots(n) == {1, 2, 3, n}
CapRoles == {"", "climax", "interlude"}
CapMarkupsOf(n) ==
  {StageMarkup(<<[StageChapter(1, [i \in 1..n |->
       StageItem(TextOf("plain", 100 + i), i - 1,
                 IF i \in low THEN 8000 ELSE 9000, <<>>,
                 IF i \in where
                 THEN <<Effect("text_style", "fiery_sharp", "", "", 0, 9000, "", 0)>>
                 ELSE <<>>)]) EXCEPT !.structural_role = role]>>) :
     where \in SUBSET CapSlots(n), low \in SUBSET CapSlots(n), role \in CapRoles}
CapMarkups == CapMarkupsOf(LongLen) \cup CapMarkupsOf(2 * LongLen)

InitChapterCap ==
  /\ validated_markup \in CapMarkups
  /\ final_markup = validated_markup
  /\ pc = "sparsity"
  /\ db_book = NewBook
  /\ book_theme = "general"
  /\ parsed_book = NoBook
  /\ fault = "none"
  /\ structure_data = CreateFallbackStructureAnalysis
  /\ character_profiles = {}
  /\ enhanced_chapters = <<>>
  /\ final_chapters = <<>>
  /\ enhanced_content = <<>>
  /\ effect_history = <<>>
  /\ revalidated_markup = NoMarkup
  /\ peer = NoCall
  /\ final_result = NoMarkup

NextChapterCap ==
  \/ SparsityControl

SpecChapterCap == InitChapterCap /\ [][NextChapterCap]_vars

\* indices of the effect-bearing items of a content list
EffectBearingIn(content) == {i \in 1..Len(content) : content[i].effects # <<>>}

\* floor(5% x segment count x phase multiplier), the multiplier in tenths
CapOf(chapter) ==
  (5 * Len(chapter.content) * ChapterTypeMultiplier(DetermineChapterType(chapter))) \div 1000

AppliedChapterType(c) == DetermineChapterType(validated_markup.chapters[c])

\* C22: within analyze_and_enhance the phase whose multiplier the sparsity
\* controller applies to a chapter is the structural role the structural
\* analyzer assigned to that chapter in the same run; it is re-derived from
\* the average emotional score only when no role was produced.
C22_PhaseFromStructure ==
  (pc = "sparsity") =>
     \A c \in 1..Len(validated_markup.chapters) :
        (c \in DOMAIN structure_data.chapter_analysis
           /\ structure_data.chapter_analysis[c].structural_role # "") =>
          AppliedChapterType(c) = structure_data.chapter_analysis[c].structural_role

\* the score calculate_emotional_weight gives the segment at chapter c,
\* position i (1-based) of the book when the narrative-context multiplier is
\* looked up at the segment's own coordinates (0-based, as the structural
\* analyzer records them)
ScoreAtCoordinates(c, i) ==
  CalculateEmotionalWeight([parsed_book.chapters[c].content[i] EXCEPT
                              !.chapter = c - 1, !.position = i - 1],
                           structure_data, character_profiles)

\* C23: during analyze_and_enhance the narrative-context multiplier used for
\* the segment at (chapter c, position p) is 1.5 when the structural analyzer
\* flagged a story beat at (c, p), 1.3 for a tension point, 1.5 x 1.3 for
\* both and 1.0 otherwise: the segment's emotional_score is the score with
\* the multiplier of its own coordinates.
C23_ContextMultiplier ==
  (pc \in {"selecting", "quality", "sparsity"} /\ fault = "none") =>
     \A c \in 1..Len(enhanced_chapters) :
        \A i \in 1..Len(enhanced_chapters[c].content) :
           enhanced_chapters[c].content[i].emotional_score = ScoreAtCoordinates(c, i)

\* number of the keywords of a theme that occur in the text of the book
ThemeHits(theme) ==
  Cardinality({k \in theme_keywords[theme] :
                 \E i \in 1..Len(AllTexts(enhanced_chapters)) :
                    HasKw(AllTexts(enhanced_chapters)[i], k)})

\* C24: the book theme the orchestrator computes is a theme with the highest
\* keyword-hit total, and it is 'general' when every theme's total is zero.
C24_BookTheme ==
  (pc \in {"quality", "sparsity"}) =>
     IF \A t \in DOMAIN theme_keywords : ThemeHits(t) = 0
     THEN final_markup.theme = "general"
     ELSE /\ final_markup.theme \in DOMAIN theme_keywords
          /\ \A t \in DOMAIN theme_keywords : ThemeHits(final_markup.theme) >= ThemeHits(t)

\* ------------------------------------------------ the story phases on their own
\* analyze_narrative_structure on books of 0..MaxPhaseChapters chapters
MaxPhaseChapters == 12
PhaseContents == SeqsUpTo({"plain", "moderate"}, 2) \ {<<>>}
PhaseBooks ==
  {[title |-> "Sample Book",
    chapters |-> [c \in 1..n |->
       [title |-> "Chapter", bookTitle |-> "", structural_role |-> "",
        content |-> [i \in 1..Len(cs) |-> Segment(cs[i], 100 * c + i)]]]] :
     n \in 0..MaxPhaseChapters, cs \in PhaseContents}

InitPhases ==
  /\ parsed_book \in PhaseBooks
  /\ fault \in {"none", "structural"}
  /\ pc = "structural"
  /\ db_book = NewBook
  /\ book_theme = "general"
  /\ structure_data = CreateFallbackStructureAnalysis
  /\ character_profiles = {}
  /\ enhanced_chapters = <<>>
  /\ final_chapters = <<>>
  /\ enhanced_content = <<>>
  /\ effect_history = <<>>
  /\ final_markup = NoMarkup
  /\ validated_markup = NoMarkup
  /\ revalidated_markup = NoMarkup
  /\ peer = NoCall
  /\ final_result = NoMarkup

NextPhases ==
  \/ StructuralAnalysis

SpecPhases == InitPhases /\ [][NextPhases]_vars

PhaseNames == {"exposition", "rising_action", "climax", "falling_action"}

\* C25: for every chapter count n >= 0 the four story phases partition the
\* chapter indices 0..n-1: every chapter index lies in exactly one phase and
\* no phase holds an index that is not a chapter of the book.
C25_PhasesPartition ==
  (pc = "character" /\ fault = "none") =>
     LET n == Len(parsed_book.chapters)
         phases == structure_data.story_phases
     IN  /\ \A ph \in PhaseNames : phases[ph] \subseteq 0..(n - 1)
         /\ \A idx \in 0..(n - 1) :
              Cardinality({ph \in PhaseNames : idx \in phases[ph]}) = 1

\* the allowlist of the tier the claim assigns to a score: dramatic above
\* 0.8, moderate above 0.6, micro otherwise
TierAllowlist(s) ==
  IF s > 8000 THEN {"passionate_flame", "burn", "swords_clash", "heartbeat"}
  ELSE IF s > 6000
  THEN {"fiery_sharp", "mysterious_shadow", "glow", "sparkle", "fantasy_glow", "noir_shadow"}
  ELSE {"calm_gentle", "gentle_wind"}

\* text-style effects come first, then word effects, then the sound
KindRank(e) ==
  CASE e.type = "text_style" -> 1
    [] e.type = "word_effect" -> 2
    [] e.type = "sound" -> 3
    [] OTHER -> 0

\* C26: every list select_appropriate_effects returns is consistent with the
\* segment's emotional_score s: empty when s < 0.5; every effect name in the
\* allowlist of the single tier chosen from s; a sound effect only if
\* s > 0.8; text-style first, then word effects, then sound.
C26_TierConsistent ==
  \A i \in 1..Len(enhanced_content) :
     LET s == enhanced_content[i].emotional_score
         effects == enhanced_content[i].effects
     IN  /\ (s < 5000) => effects = <<>>
         /\ \A k \in 1..Len(effects) :
              /\ CatalogName(effects[k]) \in TierAllowlist(s)
              /\ KindRank(effects[k]) # 0
              /\ (effects[k].type = "sound") => s > 8000
         /\ \A k \in 1..(Len(effects) - 1) : KindRank(effects[k]) <= KindRank(effects[k + 1])

\* a segment of score 0.9 that was given a text style, a word effect and a
\* sound, in this order, all of the dramatic tier
C26_Witness ==
  \E i \in 1..Len(enhanced_content) :
     /\ enhanced_content[i].emotional_score > 8000
     /\ Len(enhanced_content[i].effects) = 3
     /\ enhanced_content[i].effects[1].type = "text_style"
     /\ enhanced_content[i].effects[2].type = "word_effect"
     /\ enhanced_content[i].effects[3].type = "sound"

\* the checks of _is_effect_valid other than the combination check: the
\* score threshold, the effect type, the context violations and the
\* character consistency
PassesOwnChecks(effect, item) ==
  /\ ~(item.emotional_score < 5000)
  /\ effect.type \in valid_types
  /\ ~\E c \in DOMAIN context_violations :
        HasKw(item.text, c) /\ EffectName(effect) \in context_violations[c]
  /\ IsCharacterConsistent(effect, item)

\* the effects of the segment that form a blacklisted pair with the effect
CombinationPartners(effect, item) ==
  {k \in 1..Len(item.effects) :
     /\ item.effects[k] # effect
     /\ <<EffectName(effect), EffectName(item.effects[k])>> \in inappropriate_combinations}

\* C27: in the validation of a segment inside validate_all_effects, an
\* effect that passes the score, type, context and character checks is
\* rejected only when a blacklisted partner of it on the same segment passes
\* those checks as well; a partner that is itself removed by them does not
\* cause the rejection.
C27_SurvivingPartner ==
  (pc = "sparsity") =>
    \A c \in 1..Len(final_markup.chapters) :
      \A i \in 1..Len(final_markup.chapters[c].content) :
        LET item == final_markup.chapters[c].content[i]
        IN  \A k \in 1..Len(item.effects) :
              (PassesOwnChecks(item.effects[k], item) /\ ~IsEffectValid(item.effects[k], item))
              => \E j \in CombinationPartners(item.effects[k], item) :
                    PassesOwnChecks(item.effects[j], item)

\* the effect types that occur more than once on the segment
RepeatedTypes(effects) ==
  {t \in valid_types : Cardinality({k \in 1..Len(effects) : effects[k].type = t}) > 1}

\* C28: after validate_all_effects every segment carries at most one effect
\* of each kind (text_style, word_effect, sound), the one kept being the
\* first of greatest intensity among those of its kind that passed the
\* validity checks and the cut to the three best composite scores.
C28_OnePerKind ==
  (pc = "sparsity") =>
    \A c \in 1..Len(validated_markup.chapters) :
      \A i \in 1..Len(validated_markup.chapters[c].content) :
        LET before == final_markup.chapters[c].content[i]
            after == validated_markup.chapters[c].content[i]
        IN  /\ RepeatedTypes(after.effects) = {}
            /\ after.effects = ValidateContentEffects(before)

\* every entry of the effect history belongs to the first chapter
FirstChapterOnly(history) ==
  history # <<>> /\ \A k \in 1..Len(history) : history[k].chapter = 0

\* C29: a run whose effects were all selected in the first chapter (chapter
\* index 0) gets its effect distribution computed without an exception and
\* returns on the normal path, not with the fallback markup.
C29_FirstChapterCompletes ==
  (Returned /\ FirstChapterOnly(effect_history)) => ~IsFallback(final_result)

\* the catalog entries whose 'themes' list does not hold 'general'
RestrictedThemeEffects ==
  {n \in DOMAIN effect_library : "general" \notin effect_library[n].themes}

\* an effect of a restricted theme is on some segment of the markup
HasRestrictedEffect(markup) ==
  \E c \in 1..Len(markup.chapters) :
    \E i \in 1..Len(markup.chapters[c].content) :
      \E k \in 1..Len(markup.chapters[c].content[i].effects) :
        CatalogName(markup.chapters[c].content[i].effects[k]) \in RestrictedThemeEffects

\* a segment of the second tier whose text holds a trigger of a restricted
\* effect carries an effect
RestrictedCandidateServed(markup) ==
  \E c \in 1..Len(markup.chapters) :
    \E i \in 1..Len(markup.chapters[c].content) :
      LET item == markup.chapters[c].content[i]
      IN  /\ DetermineEffectTier(item.emotional_score) = "TIER_2_MODERATE"
          /\ \E n \in RestrictedThemeEffects :
               \E t \in Range(effect_library[n].triggers) : HasKw(item.text, t)
          /\ item.effects # <<>>

\* C30: whatever the book, no effect whose catalog entry is restricted to
\* themes (fantasy_glow, noir_shadow) is selected by the pipeline or appears
\* in the markup analyze_and_enhance returns: the selector is called with
\* the theme 'general'.
C30_NoRestrictedEffect ==
  /\ book_theme = "general"
  /\ \A i \in 1..Len(enhanced_content) :
       \A k \in 1..Len(enhanced_content[i].effects) :
         CatalogName(enhanced_content[i].effects[k]) \notin RestrictedThemeEffects
  /\ ~HasRestrictedEffect(final_markup)
  /\ Returned => ~HasRestrictedEffect(final_result)

\* a normal return for a book in which a second-tier segment holding the
\* trigger 'magic' was given an effect
C30_Witness ==
  /\ Returned
  /\ ~IsFallback(final_result)
  /\ RestrictedCandidateServed(final_markup)

SelectedAtMostThree ==
  /\ \A i \in 1..Len(enhanced_content) : Len(enhanced_content[i].effects) <= 3
  /\ \A c \in 1..Len(final_chapters) :
       \A i \in 1..Len(final_chapters[c].content) : Len(final_chapters[c].content[i].effects) <= 3
  /\ \A c \in 1..Len(final_markup.chapters) :
       \A i \in 1..Len(final_markup.chapters[c].content) :
         Len(final_markup.chapters[c].content[i].effects) <= 3

\* chapter by chapter, every segment of `after` is a segment of `before`
\* (the same text) and carries no more effects than it did there
NoMoreEffects(after, before) ==
  /\ Len(after.chapters) = Len(before.chapters)
  /\ \A c \in 1..Len(after.chapters) :
       \A i \in 1..Len(after.chapters[c].content) :
         \E j \in 1..Len(before.chapters[c].content) :
           /\ before.chapters[c].content[j].text = after.chapters[c].content[i].text
           /\ Len(after.chapters[c].content[i].effects)
                <= Len(before.chapters[c].content[j].effects)

\* C2: every segment has at most 3 effects after select_appropriate_effects,
\* and the number of effects of a segment does not increase from the
\* selector's output to validate_all_effects' output, nor from there to
\* enforce_sparsity_rules' output.
C2_EffectsBounded ==
  /\ [](SelectedAtMostThree
        /\ (pc = "sparsity" => NoMoreEffects(validated_markup, final_markup)))
  /\ [][(pc = "sparsity" /\ pc' = "done") => NoMoreEffects(final_result', validated_markup)]_vars

\* a book returned on the normal path in which the selector gave a segment
\* three effects, the later stages removed effects, and effects remain
C2_Witness ==
  /\ Returned /\ ~IsFallback(final_result)
  /\ \E c \in 1..Len(final_markup.chapters) :
       \E i \in 1..Len(final_markup.chapters[c].content) :
         Len(final_markup.chapters[c].content[i].effects) = 3
  /\ TotalEffects(final_result) > 0
  /\ TotalEffects(final_result) < TotalEffects(final_markup)

\* per global (whole-book) position of a markup, whether the segment there
\* bears effects
EffectBearing(markup) ==
  Concat([c \in 1..Len(markup.chapters) |->
            [i \in 1..Len(markup.chapters[c].content) |->
               markup.chapters[c].content[i].effects # <<>>]])

\* C3: in the markup returned by enforce_sparsity_rules any two
\* effect-bearing segments at global positions i < j are at least 8 apart,
\* and no more than 2 consecutive segments bear effects.
C3_Spacing ==
  Returned =>
    LET bearing == EffectBearing(final_result)
    IN  /\ \A i \in 1..Len(bearing) : \A j \in (i + 1)..Len(bearing) :
             (bearing[i] /\ bearing[j]) => j - i >= 8
        /\ ~\E i \in 1..(Len(bearing) - 2) : bearing[i] /\ bearing[i + 1] /\ bearing[i + 2]

\* two effect-bearing segments are returned, and the spacing scan cleared a
\* segment that the chapter caps had left with effects
C3_Witness ==
  /\ Returned
  /\ SegmentsWithEffects(final_result) >= 2
  /\ SegmentsWithEffects(validated_markup) > SegmentsWithEffects(final_result)

\* the step analyze_and_enhance is about to run raises
StepRaises ==
  \/ pc = "scoring" /\ ScoringRaises(parsed_book, character_profiles)
  \/ /\ pc = "selecting"
     /\ Len(final_chapters) = Len(enhanced_chapters)
     /\ BuildMarkupRaises(enhanced_chapters, effect_history)

\* the markup has the book's title, the book's chapters and segments in the
\* same count and order with their text, no effect anywhere, and status
\* 'fallback' with an error recorded
FallbackShape(markup, book) ==
  /\ markup.bookTitle = book.title
  /\ Len(markup.chapters) = Len(book.chapters)
  /\ \A c \in 1..Len(book.chapters) :
       /\ TextsOf(markup.chapters[c].content) = TextsOf(book.chapters[c].content)
       /\ \A i \in 1..Len(markup.chapters[c].content) :
            markup.chapters[c].content[i].effects = <<>>
  /\ markup.analysis_metadata.status = "fallback"
  /\ markup.analysis_metadata.error # ""

C5_EmptyBookIsNormal ==
  (Returned /\ parsed_book.chapters = <<>>) =>
     (final_result.chapters = <<>> /\ ~IsFallback(final_result))

\* an exception is raised inside analyze_character_arcs: forced inside a
\* helper, or text.lower() on a None text
CharacterAnalysisFails == fault = "character" \/ AnyTextNull(parsed_book)

\* the markup has the book's chapters and, in each, the book's segments
SameSegments(markup, book) ==
  /\ Len(markup.chapters) = Len(book.chapters)
  /\ \A c \in 1..Len(book.chapters) :
       /\ Len(markup.chapters[c].content) = Len(book.chapters[c].content)
       /\ Range(TextsOf(markup.chapters[c].content)) = Range(TextsOf(book.chapters[c].content))

StageRaised ==
  \/ fault = "structural" \/ StructureRaises(parsed_book)
  \/ CharacterAnalysisFails
  \/ ScoringRaises(parsed_book, character_profiles)
  \/ BuildMarkupRaises(enhanced_chapters, effect_history)

\* C18: an exception raised inside any one stage is caught at that stage and
\* replaced by the stage's default, and analyze_and_enhance continues on the
\* normal path: the markup it returns is not the fallback markup.
C18_StagesContained ==
  (Returned /\ StageRaised) => ~IsFallback(final_result)

\* the effects lists of a markup, chapter by chapter, segment by segment
EffectsOf(markup) ==
  [c \in 1..Len(markup.chapters) |->
     [i \in 1..Len(markup.chapters[c].content) |-> markup.chapters[c].content[i].effects]]

\* the effects _validate_content_effects leaves on an item that already
\* carries its validated effects
ValidatedTwice(item) ==
  ValidateContentEffects([item EXCEPT !.effects = ValidateContentEffects(item)])

\* C7: validate_all_effects applied to its own result leaves every
\* segment's effects list identical (nothing removed, nothing reordered);
\* the same holds of the per-segment validation it is built on.
C7_QualityIdempotent ==
  (pc = "sparsity" /\ revalidated_markup # NoMarkup) =>
     /\ EffectsOf(revalidated_markup) = EffectsOf(validated_markup)
     /\ \A c \in 1..Len(final_markup.chapters) :
          \A i \in 1..Len(final_markup.chapters[c].content) :
            ValidatedTwice(final_markup.chapters[c].content[i])
              = ValidateContentEffects(final_markup.chapters[c].content[i])

\* the second application ran on a markup with a segment of which the
\* per-segment validation removes some effects and keeps at least two
C7_Witness ==
  /\ pc = "sparsity" /\ revalidated_markup # NoMarkup
  /\ \E c \in 1..Len(final_markup.chapters) :
       \E i \in 1..Len(final_markup.chapters[c].content) :
         /\ Len(ValidateContentEffects(final_markup.chapters[c].content[i])) >= 2
         /\ Len(ValidateContentEffects(final_markup.chapters[c].content[i]))
              < Len(final_markup.chapters[c].content[i].effects)

\* C8: in the markup returned by enforce_sparsity_rules the share of
\* effect-bearing segments is at most the global target of 2%
\* (global_effect_density = 0.02).
C8_GlobalDensity ==
  Returned =>
    100 * SegmentsWithEffects(final_result) <= 2 * CountTotalSegments(final_result)

\* C9: in the markup returned by validate_all_effects followed by
\* enforce_sparsity_rules every chapter is still a chapter record, and
\* get_quality_metrics and get_sparsity_metrics return metric records for it
\* without raising.
C9_MetricsOnResult ==
  Returned =>
    /\ \A c \in 1..Len(final_result.chapters) : final_result.chapters[c].shape = "dict"
    /\ ~GetQualityMetrics(final_result).raised
    /\ ~GetSparsityMetrics(final_result).raised

\* C10: the bookTitle of the returned markup is the title of the input
\* book, on the normal path and on the fallback path.
C10_TitleKept == Returned => final_result.bookTitle = parsed_book.title

====
